---- MODULE Spec2Model ----
(***************************************************************************)
(* Model of the data pipeline scripts of energy-data-explorer:             *)
(*   build_chart_data.py, fetch_form861.py, fetch_rates.py,                *)
(*   fetch_eia_data.py, fetch_doe_outages.py, fetch_wholesale_prices.py.   *)
(*                                                                         *)
(* Conventions.                                                            *)
(*   - A Python/JSON number is Num(n) with n the value in hundredths       *)
(*     (150.5 is Num(15050)); None is Null; float nan is NaN; a key absent *)
(*     from a dict is Missing (dict.get turns it into Null).               *)
(*   - A Python str is a sequence of one-character strings, so that        *)
(*     lower(), strip(), replace() and substring tests are computed.       *)
(*   - A dict that is iterated is a sequence in insertion order.           *)
(***************************************************************************)
EXTENDS Integers, Sequences, FiniteSets, TLC

VARIABLES
    pc,               \* position of the running script
    raw_data,         \* raw_data/<dataset>/<dataset>_<year>.json files
    year,             \* loop variable of the year loops
    all_points,       \* build_chart_json accumulator
    all_utilities,    \* build_utility_json accumulator
    years_available,  \* accumulator of build_chart_json, then of build_utility_json
    output,           \* public/data: one field per output file, NoFile until written
    call,             \* a call of a pure function (arguments, result), or sys.argv of __main__
    requests          \* the URLs passed to requests.get so far, in order

vars == <<pc, raw_data, year, all_points, all_utilities, years_available, output, call,
          requests>>

----------------------------------------------------------------------------
(* Values *)

Null    == [k |-> "null", v |-> 0]
NaN     == [k |-> "nan", v |-> 0]
Missing == [k |-> "missing", v |-> 0]
Num(n)  == [k |-> "num", v |-> n]
Str(s)  == [k |-> "str", v |-> s]

IsNum(x) == x.k = "num"

\* dict.get(key): None when the key is absent
Get(x) == IF x = Missing THEN Null ELSE x

NoFile == [k |-> "nofile", v |-> 0]

\* Sequences over S of length 0..n
SeqUpTo(S, n) == UNION {[1..m -> S] : m \in 0..n}

Range(s) == {s[i] : i \in DOMAIN s}

----------------------------------------------------------------------------
(* Numbers: division and rounding in exact arithmetic on hundredths *)

\* n / d rounded to the nearest integer, ties to even (Python round), d > 0
RoundDiv(n, d) ==
    LET q == n \div d
        r == n % d
    IN IF 2 * r < d THEN q
       ELSE IF 2 * r > d THEN q + 1
       ELSE IF q % 2 = 0 THEN q ELSE q + 1

\* round(x, 0) of a value held in hundredths
Round0(x) == IF IsNum(x) THEN Num(100 * RoundDiv(x.v, 100)) ELSE x

\* round(a / total * 100, 2) for floats a, total with total > 0
PctRound2(a, total) ==
    IF IsNum(a) /\ IsNum(total) THEN Num(RoundDiv(a.v * 10000, total.v)) ELSE NaN

\* a + b on floats
Add(a, b) == IF IsNum(a) /\ IsNum(b) THEN Num(a.v + b.v) ELSE NaN

----------------------------------------------------------------------------
(* State tables *)

CA == <<"C", "A">>
TX == <<"T", "X">>
US == <<"U", "S">>

\* build_chart_data.STATE_INFO: code, name, region, in source order
STATE_INFO == <<
    <<<<"A","L">>, "Alabama", "South">>, <<<<"A","K">>, "Alaska", "West">>, <<<<"A","Z">>, "Arizona", "West">>,
    <<<<"A","R">>, "Arkansas", "South">>, <<<<"C","A">>, "California", "West">>, <<<<"C","O">>, "Colorado", "West">>,
    <<<<"C","T">>, "Connecticut", "Northeast">>, <<<<"D","E">>, "Delaware", "South">>, <<<<"D","C">>, "District of Columbia", "South">>,
    <<<<"F","L">>, "Florida", "South">>, <<<<"G","A">>, "Georgia", "South">>, <<<<"H","I">>, "Hawaii", "West">>,
    <<<<"I","D">>, "Idaho", "West">>, <<<<"I","L">>, "Illinois", "Midwest">>, <<<<"I","N">>, "Indiana", "Midwest">>,
    <<<<"I","A">>, "Iowa", "Midwest">>, <<<<"K","S">>, "Kansas", "Midwest">>, <<<<"K","Y">>, "Kentucky", "South">>,
    <<<<"L","A">>, "Louisiana", "South">>, <<<<"M","E">>, "Maine", "Northeast">>, <<<<"M","D">>, "Maryland", "South">>,
    <<<<"M","A">>, "Massachusetts", "Northeast">>, <<<<"M","I">>, "Michigan", "Midwest">>, <<<<"M","N">>, "Minnesota", "Midwest">>,
    <<<<"M","S">>, "Mississippi", "South">>, <<<<"M","O">>, "Missouri", "Midwest">>, <<<<"M","T">>, "Montana", "West">>,
    <<<<"N","E">>, "Nebraska", "Midwest">>, <<<<"N","V">>, "Nevada", "West">>, <<<<"N","H">>, "New Hampshire", "Northeast">>,
    <<<<"N","J">>, "New Jersey", "Northeast">>, <<<<"N","M">>, "New Mexico", "West">>, <<<<"N","Y">>, "New York", "Northeast">>,
    <<<<"N","C">>, "North Carolina", "South">>, <<<<"N","D">>, "North Dakota", "Midwest">>, <<<<"O","H">>, "Ohio", "Midwest">>,
    <<<<"O","K">>, "Oklahoma", "South">>, <<<<"O","R">>, "Oregon", "West">>, <<<<"P","A">>, "Pennsylvania", "Northeast">>,
    <<<<"R","I">>, "Rhode Island", "Northeast">>, <<<<"S","C">>, "South Carolina", "South">>, <<<<"S","D">>, "South Dakota", "Midwest">>,
    <<<<"T","N">>, "Tennessee", "South">>, <<<<"T","X">>, "Texas", "South">>, <<<<"U","T">>, "Utah", "West">>,
    <<<<"V","T">>, "Vermont", "Northeast">>, <<<<"V","A">>, "Virginia", "South">>, <<<<"W","A">>, "Washington", "West">>,
    <<<<"W","V">>, "West Virginia", "South">>, <<<<"W","I">>, "Wisconsin", "Midwest">>, <<<<"W","Y">>, "Wyoming", "West">>
  >>

StateCodes == {STATE_INFO[i][1] : i \in DOMAIN STATE_INFO}

StateEntry(code) == STATE_INFO[CHOOSE i \in DOMAIN STATE_INFO : STATE_INFO[i][1] = code]

\* fetch_form861.VALID_STATES
VALID_STATES == {
    <<"A","L">>, <<"A","K">>, <<"A","Z">>, <<"A","R">>, <<"C","A">>, <<"C","O">>, <<"C","T">>, <<"D","E">>, <<"F","L">>, <<"G","A">>,
    <<"H","I">>, <<"I","D">>, <<"I","L">>, <<"I","N">>, <<"I","A">>, <<"K","S">>, <<"K","Y">>, <<"L","A">>, <<"M","E">>, <<"M","D">>,
    <<"M","A">>, <<"M","I">>, <<"M","N">>, <<"M","S">>, <<"M","O">>, <<"M","T">>, <<"N","E">>, <<"N","V">>, <<"N","H">>, <<"N","J">>,
    <<"N","M">>, <<"N","Y">>, <<"N","C">>, <<"N","D">>, <<"O","H">>, <<"O","K">>, <<"O","R">>, <<"P","A">>, <<"R","I">>, <<"S","C">>,
    <<"S","D">>, <<"T","N">>, <<"T","X">>, <<"U","T">>, <<"V","T">>, <<"V","A">>, <<"W","A">>, <<"W","V">>, <<"W","I">>, <<"W","Y">>,
    <<"D","C">>
  }

----------------------------------------------------------------------------
(* Strings *)

UpperChars == <<"A","B","C","D","E","F","G","H","I","J","K","L","M",
                "N","O","P","Q","R","S","T","U","V","W","X","Y","Z">>
LowerChars == <<"a","b","c","d","e","f","g","h","i","j","k","l","m",
                "n","o","p","q","r","s","t","u","v","w","x","y","z">>
DigitChars == <<"0","1","2","3","4","5","6","7","8","9">>
SpaceChars == {" ", "\t", "\n"}

IndexIn(c, table) == CHOOSE i \in DOMAIN table : table[i] = c

UpperSet == Range(UpperChars)
LowerSet == Range(LowerChars)
DigitSet == Range(DigitChars)

LowerChar(c) == IF c \in UpperSet THEN LowerChars[IndexIn(c, UpperChars)] ELSE c
UpperChar(c) == IF c \in LowerSet THEN UpperChars[IndexIn(c, LowerChars)] ELSE c

\* the sequence f as an explicit tuple
Tuple(f) == SubSeq(f, 1, Len(f))

\* str.lower(), str.upper()
StrLower(s) == Tuple([i \in DOMAIN s |-> LowerChar(s[i])])
StrUpper(s) == Tuple([i \in DOMAIN s |-> UpperChar(s[i])])

\* str.replace(old, new) for one-character old and new
StrReplace(s, old, new) == Tuple([i \in DOMAIN s |-> IF s[i] = old THEN new ELSE s[i]])

\* str.strip(): leading and trailing whitespace removed
StrStrip(s) ==
    LET keep == {i \in DOMAIN s : s[i] \notin SpaceChars}
    IN IF keep = {} THEN <<>>
       ELSE SubSeq(s, CHOOSE i \in keep : \A j \in keep : i <= j,
                      CHOOSE i \in keep : \A j \in keep : j <= i)

\* sub in s
StrContains(sub, s) ==
    \E i \in 1..(Len(s) - Len(sub) + 1) : \A j \in DOMAIN sub : s[i + j - 1] = sub[j]

\* s[:n]
StrPrefix(s, n) == IF Len(s) <= n THEN s ELSE SubSeq(s, 1, n)

RECURSIVE DigitsValue(_)
\* the integer written by a non-empty string of decimal digits
DigitsValue(s) ==
    IF s = <<>> THEN 0
    ELSE 10 * DigitsValue(SubSeq(s, 1, Len(s) - 1)) + (IndexIn(s[Len(s)], DigitChars) - 1)

AllDigits(s) == \A i \in DOMAIN s : s[i] \in DigitSet

Fail   == [k |-> "fail", v |-> 0]
Inf(sg) == [k |-> "inf", v |-> sg]

\* float(s) for a str s: whitespace stripped, optional sign, then nan, inf,
\* infinity (any case) or digits[.digits]; anything else raises ValueError (Fail).
\* The value is held in hundredths: strings with more than two fractional
\* digits or an exponent are outside the model's inputs.
ParseFloat(s) ==
    LET t    == StrStrip(s)
        neg  == t # <<>> /\ t[1] = "-"
        sgn  == t # <<>> /\ t[1] \in {"-", "+"}
        body == IF sgn THEN SubSeq(t, 2, Len(t)) ELSE t
        low  == StrLower(body)
        sg   == IF neg THEN -1 ELSE 1
        dots == {i \in DOMAIN body : body[i] = "."}
    IN IF low = <<"n","a","n">> THEN NaN
       ELSE IF low \in {<<"i","n","f">>, <<"i","n","f","i","n","i","t","y">>} THEN Inf(sg)
       ELSE IF body = <<>> THEN Fail
       ELSE IF dots = {} THEN
            IF AllDigits(body) THEN Num(sg * 100 * DigitsValue(body)) ELSE Fail
       ELSE IF Cardinality(dots) > 1 THEN Fail
       ELSE LET d    == CHOOSE i \in dots : TRUE
                ip   == SubSeq(body, 1, d - 1)
                fp   == SubSeq(body, d + 1, Len(body))
                fp2  == IF Len(fp) = 0 THEN <<"0","0">>
                        ELSE IF Len(fp) = 1 THEN fp \o <<"0">> ELSE SubSeq(fp, 1, 2)
            IN IF AllDigits(ip) /\ AllDigits(fp) /\ Len(ip) + Len(fp) > 0
               THEN Num(sg * (100 * DigitsValue(ip) + DigitsValue(fp2)))
               ELSE Fail

\* float(x): a number is itself, a str is parsed, None raises TypeError (Fail)
Float(x) ==
    IF x.k \in {"num", "nan", "inf"} THEN x
    ELSE IF x.k = "str" THEN ParseFloat(x.v)
    ELSE Fail

IsReal(x) == x.k \in {"num", "inf"}

\* a < b and a <= b on floats including inf; False when either is nan
FLt(a, b) ==
    /\ IsReal(a) /\ IsReal(b)
    /\ IF a.k = "num" /\ b.k = "num" THEN a.v < b.v
       ELSE IF a.k = "inf" /\ b.k = "num" THEN a.v < 0
       ELSE IF a.k = "num" /\ b.k = "inf" THEN b.v > 0
       ELSE a.v < b.v
FLe(a, b) == IsReal(a) /\ IsReal(b) /\ (a = b \/ FLt(a, b))

----------------------------------------------------------------------------
(* build_chart_data.py: loaders *)

Json(c) == [k |-> "json", v |-> c]
Unreadable == [k |-> "unreadable", v |-> 0]

IsNone(x) == x.k = "null"

\* The file's JSON content, or None when the file is absent or json.load raises
load_generation_data(file) == IF file.k = "json" THEN file ELSE Null

load_rate_data(file) == IF file.k = "json" THEN file ELSE Null

load_utility_data(file) == IF file.k = "json" THEN file ELSE Null

SAIDI_MAX == 1000000

\* a filter with both limits included: 0 <= saidi <= 10000
SaidiOkMutClosed(record) ==
    LET saidi == Get(record.saidi)
    IN ~IsNone(saidi) /\ FLe(Num(0), saidi) /\ FLe(saidi, Num(SAIDI_MAX))

\* the condition of the filter: saidi is not None and 0 < saidi < 10000
SaidiOk(record) ==
    LET saidi == Get(record.saidi)
    IN ~IsNone(saidi) /\ FLt(Num(0), saidi) /\ FLt(saidi, Num(SAIDI_MAX))

load_reliability_data(file) ==
    IF file.k = "json" THEN Json(SelectSeq(file.v, SaidiOk)) ELSE Null

----------------------------------------------------------------------------
(* build_chart_data.py: process_generation_data *)

FUEL_MAPPING == <<
    <<"ALL", "total">>, <<"WND", "wind">>, <<"SUN", "solar">>, <<"NG", "gas">>,
    <<"COW", "coal">>, <<"NUC", "nuclear">>, <<"HYC", "hydro">>, <<"OTH", "other">> >>

ZeroGen(location) ==
    [location |-> location, total |-> Num(0), wind |-> Num(0), solar |-> Num(0),
     gas |-> Num(0), coal |-> Num(0), nuclear |-> Num(0), hydro |-> Num(0),
     other |-> Num(0)]

HasState(state_gen, location) == \E i \in DOMAIN state_gen : state_gen[i].location = location

\* state_gen[location][field_name] = generation, the entry created on first use
SetField(state_gen, location, field_name, generation) ==
    LET sg == IF HasState(state_gen, location) THEN state_gen
              ELSE Append(state_gen, ZeroGen(location))
    IN [i \in DOMAIN sg |->
          IF sg[i].location = location
          THEN [sg[i] EXCEPT ![field_name] = generation] ELSE sg[i]]

\* the body of the inner loop for one record; a record without "location" has
\* location "" (the empty sequence)
GenRecordStep(state_gen, field_name, record) ==
    LET location   == record.location
        generation == Get(record.generation)
    IN IF Len(location) # 2 \/ location \notin StateCodes THEN state_gen
       ELSE IF IsNone(generation) THEN state_gen
       ELSE IF Float(generation).k = "fail" THEN state_gen
       ELSE SetField(state_gen, location, field_name, Float(generation))

RECURSIVE GenRecords(_, _, _)
GenRecords(state_gen, field_name, records) ==
    IF records = <<>> THEN state_gen
    ELSE GenRecords(GenRecordStep(state_gen, field_name, Head(records)),
                    field_name, Tail(records))

RECURSIVE GenFuels(_, _, _)
GenFuels(state_gen, gen_data, i) ==
    IF i > Len(FUEL_MAPPING) THEN state_gen
    ELSE LET fuel_type == FUEL_MAPPING[i][1]
             after == IF fuel_type \notin DOMAIN gen_data THEN state_gen
                      ELSE GenRecords(state_gen, FUEL_MAPPING[i][2], gen_data[fuel_type])
         IN GenFuels(after, gen_data, i + 1)

\* penetration percentages whose vrePenetration leaves solar out
PenetrationMutWindOnly(data) ==
    IF FLt(Num(0), data.total)
    THEN data @@ [windPenetration  |-> PctRound2(data.wind, data.total),
                  solarPenetration |-> PctRound2(data.solar, data.total),
                  vrePenetration   |-> PctRound2(data.wind, data.total)]
    ELSE data @@ [windPenetration |-> Num(0), solarPenetration |-> Num(0),
                  vrePenetration |-> Num(0)]

\* the second loop: penetration percentages of one state
Penetration(data) ==
    IF FLt(Num(0), data.total)
    THEN data @@ [windPenetration  |-> PctRound2(data.wind, data.total),
                  solarPenetration |-> PctRound2(data.solar, data.total),
                  vrePenetration   |-> PctRound2(Add(data.wind, data.solar), data.total)]
    ELSE data @@ [windPenetration |-> Num(0), solarPenetration |-> Num(0),
                  vrePenetration |-> Num(0)]

\* the states in the reverse of their insertion order
process_generation_dataMutReversed(gen_data) ==
    LET sg == GenFuels(<<>>, gen_data, 1)
    IN [i \in DOMAIN sg |-> Penetration(sg[Len(sg) + 1 - i])]

\* the dict keyed by state code, as a sequence in insertion order
process_generation_data(gen_data) ==
    LET sg == GenFuels(<<>>, gen_data, 1)
    IN [i \in DOMAIN sg |-> Penetration(sg[i])]

----------------------------------------------------------------------------
(* build_chart_data.py: build_chart_json *)

FIRST_YEAR == 2013

\* the year loop runs over FIRST_YEAR .. LastYear (range(2013, 2024) in the source)
NumYears == 2
LastYear == FIRST_YEAR + NumYears - 1
Years    == FIRST_YEAR..LastYear

\* reliability_by_state.get(state_code, {}): the last record of the state wins
RelIdx(reliability_data, state_code) ==
    {i \in DOMAIN reliability_data : reliability_data[i].state = state_code}

RelField(reliability_data, state_code, field) ==
    LET idx == RelIdx(reliability_data, state_code)
    IN IF idx = {} THEN Null
       ELSE Get(reliability_data[CHOOSE i \in idx : \A j \in idx : j <= i][field])

\* rates_by_state.get(state_code, {}): sector -> price, the last record of a
\* (state, sector) pair wins; {} when rate_data is None or empty
StateRates(rate_data, state_code) ==
    IF IsNone(rate_data) THEN << >>
    ELSE LET rd  == rate_data.v
             idx == {i \in DOMAIN rd : rd[i].state = state_code}
         IN [s \in {rd[i].sector : i \in idx} |->
               rd[CHOOSE i \in idx : rd[i].sector = s
                                     /\ \A j \in idx : rd[j].sector = s => j <= i].price]

\* a lookup that leaves the field out when the sector is absent
RateGetMutOmit(state_rates, sector) ==
    IF sector \in DOMAIN state_rates THEN state_rates[sector] ELSE Missing

\* state_rates.get(sector)
RateGet(state_rates, sector) ==
    IF sector \in DOMAIN state_rates THEN state_rates[sector] ELSE Null

\* the point dict literal
Point(y, gen_info, saidi, saifi, state_rates) ==
    [state            |-> StateEntry(gen_info.location)[2],
     stateCode        |-> gen_info.location,
     year             |-> y,
     saidi            |-> saidi,
     saifi            |-> saifi,
     vrePenetration   |-> gen_info.vrePenetration,
     windPenetration  |-> gen_info.windPenetration,
     solarPenetration |-> gen_info.solarPenetration,
     totalGeneration  |-> Round0(gen_info.total),
     customerCount    |-> Num(0),
     region           |-> StateEntry(gen_info.location)[3],
     rateResidential  |-> RateGet(state_rates, "RES"),
     rateCommercial   |-> RateGet(state_rates, "COM"),
     rateIndustrial   |-> RateGet(state_rates, "IND"),
     rateAll          |-> RateGet(state_rates, "ALL"),
     generationWind   |-> Round0(gen_info.wind),
     generationSolar  |-> Round0(gen_info.solar),
     generationGas    |-> Round0(gen_info.gas),
     generationCoal   |-> Round0(gen_info.coal),
     generationNuclear |-> Round0(gen_info.nuclear),
     generationHydro  |-> Round0(gen_info.hydro),
     generationOther  |-> Round0(gen_info.other)]

\* a skip condition that never holds
SkipStateMutNever(saidi, state_rates) == FALSE

\* a skip condition that ignores the rates
SkipStateMutRatesIgnored(saidi, state_rates) == IsNone(saidi)

\* the condition under which a state of state_generation is skipped:
\* saidi is None and not state_rates
SkipState(saidi, state_rates) == IsNone(saidi) /\ DOMAIN state_rates = {}

RECURSIVE CombineStates(_, _, _, _, _)
\* the loop over state_generation.items() from index i: the points appended
CombineStates(y, state_generation, reliability_data, rate_data, i) ==
    IF i > Len(state_generation) THEN <<>>
    ELSE LET gen_info    == state_generation[i]
             state_code  == gen_info.location
             saidi       == RelField(reliability_data, state_code, "saidi")
             saifi       == RelField(reliability_data, state_code, "saifi")
             state_rates == StateRates(rate_data, state_code)
             rest        == CombineStates(y, state_generation, reliability_data,
                                          rate_data, i + 1)
         IN IF state_code \notin StateCodes THEN rest
            ELSE IF SkipState(saidi, state_rates) THEN rest
            ELSE <<Point(y, gen_info, saidi, saifi, state_rates)>> \o rest

\* the points one iteration of the year loop appends, given the three loaded
\* datasets (gen_data and reliability_data not None)
YearPoints(y, gen_data, reliability_data, rate_data) ==
    CombineStates(y, process_generation_data(gen_data.v), reliability_data.v,
                  rate_data, 1)

RECURSIVE SortInts(_)
\* sorted() of a sequence of integers
SortInts(s) ==
    IF s = <<>> THEN <<>>
    ELSE LET m == CHOOSE i \in DOMAIN s : \A j \in DOMAIN s : s[i] <= s[j]
         IN <<s[m]>> \o SortInts([i \in 1..(Len(s) - 1) |-> IF i < m THEN s[i] ELSE s[i + 1]])

CodeLess(a, b) ==
    \/ IndexIn(a[1], UpperChars) < IndexIn(b[1], UpperChars)
    \/ a[1] = b[1] /\ IndexIn(a[2], UpperChars) < IndexIn(b[2], UpperChars)

RECURSIVE SortCodes(_)
\* sorted(list(set)) of state codes
SortCodes(S) ==
    IF S = {} THEN <<>>
    ELSE LET m == CHOOSE a \in S : \A b \in S \ {a} : CodeLess(a, b)
         IN <<m>> \o SortCodes(S \ {m})

REGIONS_SORTED == <<"Midwest", "Northeast", "South", "West">>

\* the output dict; lastUpdated and dataSource are not modelled
ChartOutput(points, years) ==
    [points   |-> points,
     metadata |-> [yearsAvailable |-> SortInts(years),
                   states  |-> SortCodes({points[i].stateCode : i \in DOMAIN points}),
                   regions |-> SelectSeq(REGIONS_SORTED,
                                 LAMBDA r : \E i \in DOMAIN points : points[i].region = r)]]

\* years_available that records every year combined
YearsAfterMutAlways(years, y, pts) == Append(years, y)

\* years_available after the iteration of year y that appended pts
YearsAfter(years, y, pts) == IF Len(pts) > 0 THEN Append(years, y) ELSE years

\* an iteration that hits `continue`: generation or reliability data missing
ChartSkipYear ==
    /\ pc = "chart_loop" /\ year <= LastYear
    /\ \/ IsNone(load_generation_data(raw_data[year].generation))
       \/ IsNone(load_reliability_data(raw_data[year].reliability))
    /\ year' = year + 1
    /\ UNCHANGED <<pc, raw_data, all_points, all_utilities, years_available, output, call, requests>>

\* an iteration that combines the year's datasets
ChartCombineYear ==
    /\ pc = "chart_loop" /\ year <= LastYear
    /\ ~IsNone(load_generation_data(raw_data[year].generation))
    /\ ~IsNone(load_reliability_data(raw_data[year].reliability))
    /\ \E pts \in {YearPoints(year, gen_data, reliability_data, rate_data) :
                      gen_data \in {load_generation_data(raw_data[year].generation)},
                      reliability_data \in {load_reliability_data(raw_data[year].reliability)},
                      rate_data \in {load_rate_data(raw_data[year].rates)}} :
         /\ all_points' = all_points \o pts
         /\ years_available' = YearsAfter(years_available, year, pts)
    /\ year' = year + 1
    /\ UNCHANGED <<pc, raw_data, all_utilities, output, call, requests>>

\* after the loop: no points, return without writing
ChartNoOutput ==
    /\ pc = "chart_loop" /\ year > LastYear /\ all_points = <<>>
    /\ pc' = "chart_done"
    /\ UNCHANGED <<raw_data, year, all_points, all_utilities, years_available, output, call, requests>>

\* after the loop: write saidi-vre.json
ChartWrite ==
    /\ pc = "chart_loop" /\ year > LastYear /\ all_points # <<>>
    /\ output' = [output EXCEPT !.saidi_vre = Json(ChartOutput(all_points, years_available))]
    /\ pc' = "chart_done"
    /\ UNCHANGED <<raw_data, year, all_points, all_utilities, years_available, call, requests>>

----------------------------------------------------------------------------
(* build_chart_json: the raw_data files a run can find *)

MaxGenRecs  == 2
MaxRelRecs  == 3
MaxRateRecs == 1

GenRec(location, g) == [location |-> location, generation |-> g]
RelRec(state, saidi, saifi) == [state |-> state, saidi |-> saidi, saifi |-> saifi]
RateRec(state, sector, price) == [state |-> state, sector |-> sector, price |-> price]

ChartGenRecs  == {GenRec(CA, Num(10000)), GenRec(TX, Num(25050))}
ChartRelRecs  == {RelRec(CA, Num(15050), Num(120)), RelRec(TX, Num(999999900), Num(150)),
                  RelRec(TX, Num(20025), Missing)}
ChartRateRecs == {RateRec(CA, "RES", Num(1250)), RateRec(TX, "RES", Num(1100)),
                  RateRec(TX, "ALL", Num(900))}

\* generation_<year>.json: total (ALL) records as drawn, one wind record for CA
ChartGenFiles ==
    {NoFile, Unreadable} \cup
    {Json([ALL |-> s, WND |-> <<GenRec(CA, Num(3000))>>]) : s \in SeqUpTo(ChartGenRecs, MaxGenRecs)}
ChartRelFiles ==
    {NoFile, Unreadable} \cup {Json(s) : s \in SeqUpTo(ChartRelRecs, MaxRelRecs)}
ChartRateFiles ==
    {NoFile, Unreadable} \cup {Json(s) : s \in SeqUpTo(ChartRateRecs, MaxRateRecs)}

YearFiles(g, r, t, u) == [generation |-> g, reliability |-> r, rates |-> t, utilities |-> u]

NoFiles == YearFiles(NoFile, NoFile, NoFile, NoFile)

\* one year holds any combination of files, the other years hold none
JoinFileSystems ==
    {[y \in Years |-> IF y = y0 THEN YearFiles(g, r, t, NoFile) ELSE NoFiles] :
        y0 \in {FIRST_YEAR}, g \in ChartGenFiles, r \in ChartRelFiles, t \in ChartRateFiles}

\* every year holds one of a few typical combinations of files
TypicalYearFiles == {
    NoFiles,
    YearFiles(Json([ALL |-> <<GenRec(CA, Num(10000))>>]),
              Json(<<RelRec(CA, Num(15050), Num(120))>>), NoFile, NoFile),
    YearFiles(Json([ALL |-> <<GenRec(CA, Num(10000))>>]),
              Json(<<RelRec(TX, Num(999999900), Num(150))>>), NoFile, NoFile),
    YearFiles(Json([ALL |-> <<GenRec(CA, Num(10000))>>]), Unreadable,
              Json(<<RateRec(CA, "RES", Num(1250))>>), NoFile),
    YearFiles(Json([ALL |-> <<GenRec(CA, Num(10000)), GenRec(TX, Num(25050))>>]),
              Json(<<RelRec(CA, Num(15050), Num(120))>>),
              Json(<<RateRec(TX, "RES", Num(1100))>>), NoFile),
    YearFiles(Json([ALL |-> <<GenRec(CA, Null), GenRec(TX, Num(25050)), GenRec(CA, Num(10000))>>]),
              Json(<<RelRec(TX, Num(20025), Missing), RelRec(CA, Num(15050), Num(120))>>),
              NoFile, NoFile) }

YearsFileSystems == [Years -> TypicalYearFiles]

Idle == [fn |-> "none"]

NoOutput ==
    [saidi_vre |-> NoFile, utilities |-> NoFile, wholesale_prices |-> NoFile,
     outage_events |-> NoFile]

----------------------------------------------------------------------------
(* build_chart_data.py: build_utility_json *)

RTO_NAMES == <<
    <<"rto_caiso", "CAISO">>, <<"rto_ercot", "ERCOT">>, <<"rto_pjm", "PJM">>,
    <<"rto_nyiso", "NYISO">>, <<"rto_spp", "SPP">>, <<"rto_miso", "MISO">>,
    <<"rto_isone", "ISO-NE">> >>

\* u.get(rto_key, False): the flags of a utility are the function u.rto
RtoFlag(u, rto_key) == rto_key \in DOMAIN u.rto /\ u.rto[rto_key]

RECURSIVE RtoLoop(_, _, _)
\* for rto_key, rto_name in RTO_NAMES.items(), from the i-th item, on
\* acc = [primary_rto, rto_list]
RtoLoop(u, i, acc) ==
    IF i > Len(RTO_NAMES) THEN acc
    ELSE RtoLoop(u, i + 1,
                 IF RtoFlag(u, RTO_NAMES[i][1])
                 THEN [primary_rto |-> IF IsNone(acc.primary_rto) THEN Str(RTO_NAMES[i][2])
                                       ELSE acc.primary_rto,
                       rto_list    |-> Append(acc.rto_list, RTO_NAMES[i][2])]
                 ELSE acc)

\* rto_list after the loop
RtoList(u) == RtoLoop(u, 1, [primary_rto |-> Null, rto_list |-> <<>>]).rto_list

\* a primary_rto that every true flag overwrites
PrimaryRtoMutLast(u) ==
    LET rto_list == RtoLoop(u, 1, [primary_rto |-> Null, rto_list |-> <<>>]).rto_list
    IN IF rto_list = <<>> THEN Null ELSE Str(rto_list[Len(rto_list)])

\* primary_rto after the loop
PrimaryRto(u) == RtoLoop(u, 1, [primary_rto |-> Null, rto_list |-> <<>>]).primary_rto

\* state_vre.get(field, 0) with state_vre = state_gen.get(state_code, {})
StateVre(state_gen, state_code, field) ==
    IF HasState(state_gen, state_code)
    THEN state_gen[CHOOSE i \in DOMAIN state_gen : state_gen[i].location = state_code][field]
    ELSE Num(0)

\* the utility_record dict literal
UtilityRecord(u, y, state_gen) ==
    [utilityId    |-> Get(u.utility_id),
     utilityName  |-> u.utility_name,
     state        |-> StateEntry(u.state)[2],
     stateCode    |-> u.state,
     region       |-> StateEntry(u.state)[3],
     ownership    |-> u.ownership,
     nercRegion   |-> u.nerc_region,
     primaryRto   |-> PrimaryRto(u),
     rtos         |-> RtoList(u),
     year         |-> y,
     saidi        |-> Get(u.saidi),
     saifi        |-> Get(u.saifi),
     customers    |-> Get(u.customers),
     stateVrePenetration   |-> StateVre(state_gen, u.state, "vrePenetration"),
     stateWindPenetration  |-> StateVre(state_gen, u.state, "windPenetration"),
     stateSolarPenetration |-> StateVre(state_gen, u.state, "solarPenetration")]

\* the records one iteration of the year loop appends
YearUtilities(y, utility_data, gen_data) ==
    LET state_gen == IF IsNone(gen_data) THEN <<>> ELSE process_generation_data(gen_data.v)
        kept      == SelectSeq(utility_data.v, LAMBDA u : u.state \in StateCodes)
    IN [i \in DOMAIN kept |-> UtilityRecord(kept[i], y, state_gen)]

\* strings of the model in sorted() order
NAME_ORDER == <<"CAISO", "Cooperative", "ERCOT", "ISO-NE", "Investor Owned", "MISO",
                "Municipal", "NYISO", "PJM", "SPP">>

SortNames(S) == SelectSeq(NAME_ORDER, LAMBDA n : n \in S)

\* the output dict; lastUpdated and dataSource are not modelled
UtilityOutput(utilities, years) ==
    [utilities |-> utilities,
     metadata  |-> [yearsAvailable |-> SortInts(years),
                    ownershipTypes |-> SortNames({utilities[i].ownership : i \in DOMAIN utilities} \ {""}),
                    rtos |-> SortNames(UNION {Range(utilities[i].rtos) : i \in DOMAIN utilities}),
                    totalUtilities |-> Cardinality({utilities[i].utilityId : i \in DOMAIN utilities})]]

\* __main__: build_utility_json runs after build_chart_json when the utilities
\* directory exists; fetch_form861 creates the directory with its files
UtilityDirExists == \E y \in Years : raw_data[y].utilities.k # "nofile"

MainStartUtilities ==
    /\ pc = "chart_done" /\ UtilityDirExists
    /\ pc' = "utility_loop"
    /\ year' = FIRST_YEAR
    /\ all_utilities' = <<>>
    /\ years_available' = <<>>
    /\ UNCHANGED <<raw_data, all_points, output, call, requests>>

MainNoUtilities ==
    /\ pc = "chart_done" /\ ~UtilityDirExists
    /\ pc' = "main_done"
    /\ UNCHANGED <<raw_data, year, all_points, all_utilities, years_available, output, call, requests>>

\* an iteration that hits `continue`: no utility data for the year
UtilitySkipYear ==
    /\ pc = "utility_loop" /\ year <= LastYear
    /\ IsNone(load_utility_data(raw_data[year].utilities))
    /\ year' = year + 1
    /\ UNCHANGED <<pc, raw_data, all_points, all_utilities, years_available, output, call, requests>>

UtilityCombineYear ==
    /\ pc = "utility_loop" /\ year <= LastYear
    /\ ~IsNone(load_utility_data(raw_data[year].utilities))
    /\ \E recs \in {YearUtilities(year, utility_data, gen_data) :
                       utility_data \in {load_utility_data(raw_data[year].utilities)},
                       gen_data \in {load_generation_data(raw_data[year].generation)}} :
         /\ all_utilities' = all_utilities \o recs
         /\ years_available' = YearsAfter(years_available, year, recs)
    /\ year' = year + 1
    /\ UNCHANGED <<pc, raw_data, all_points, output, call, requests>>

UtilityNoOutput ==
    /\ pc = "utility_loop" /\ year > LastYear /\ all_utilities = <<>>
    /\ pc' = "main_done"
    /\ UNCHANGED <<raw_data, year, all_points, all_utilities, years_available, output, call, requests>>

UtilityWrite ==
    /\ pc = "utility_loop" /\ year > LastYear /\ all_utilities # <<>>
    /\ output' = [output EXCEPT !.utilities = Json(UtilityOutput(all_utilities, years_available))]
    /\ pc' = "main_done"
    /\ UNCHANGED <<raw_data, year, all_points, all_utilities, years_available, call, requests>>

(* utilities_<year>.json files *)

UtilRec(id, name, state, ownership, flags) ==
    [utility_id |-> id, utility_name |-> name, state |-> state, ownership |-> ownership,
     nerc_region |-> "WECC", saidi |-> Num(12000), saifi |-> Num(110),
     customers |-> Missing, rto |-> flags]

UtilA == UtilRec(Num(10100), "Alpha", CA, "Municipal", [rto_caiso |-> TRUE])
UtilB == UtilRec(Num(10200), "Beta", TX, "Cooperative",
                 [rto_ercot |-> TRUE, rto_pjm |-> FALSE, rto_spp |-> TRUE])
UtilC == UtilRec(Num(10300), "Gamma", <<"X", "X">>, "", << >>)
UtilD == UtilRec(Num(10400), "Delta", TX, "Investor Owned",
                 [rto_miso |-> FALSE, rto_isone |-> FALSE])
UtilE == UtilRec(Num(10500), "Epsilon", CA, "Municipal",
                 [rto_isone |-> TRUE, rto_caiso |-> FALSE, rto_nyiso |-> TRUE, rto_pjm |-> TRUE])

TypicalUtilityYearFiles == {
    NoFiles,
    YearFiles(NoFile, NoFile, NoFile, Unreadable),
    YearFiles(NoFile, NoFile, NoFile, Json(<<UtilC>>)),
    YearFiles(NoFile, NoFile, NoFile, Json(<<UtilA, UtilC, UtilB>>)),
    YearFiles(NoFile, NoFile, NoFile, Json(<<UtilE, UtilD>>)),
    YearFiles(Json([ALL |-> <<GenRec(CA, Num(10000))>>, WND |-> <<GenRec(CA, Num(3000))>>]),
              NoFile, NoFile, Json(<<UtilB, UtilA>>)),
    YearFiles(Json([ALL |-> <<GenRec(CA, Num(10000))>>]),
              Json(<<RelRec(CA, Num(15050), Num(120))>>), NoFile, Json(<<UtilA>>)) }

UtilityFileSystems == [Years -> TypicalUtilityYearFiles]

(* build_chart_data.py run on the raw_data files *)

InitBuild ==
    /\ pc = "chart_loop"
    /\ raw_data \in JoinFileSystems \cup YearsFileSystems \cup UtilityFileSystems
    /\ year = FIRST_YEAR
    /\ all_points = <<>>
    /\ all_utilities = <<>>
    /\ years_available = <<>>
    /\ output = NoOutput
    /\ call = Idle
    /\ requests = <<>>

NextBuild ==
    \/ ChartSkipYear \/ ChartCombineYear \/ ChartNoOutput \/ ChartWrite
    \/ MainStartUtilities \/ MainNoUtilities
    \/ UtilitySkipYear \/ UtilityCombineYear \/ UtilityNoOutput \/ UtilityWrite

SpecBuild == InitBuild /\ [][NextBuild]_vars

----------------------------------------------------------------------------
(* Calls of the pure functions: call.args on entry, call.ret on return *)

Pending == [k |-> "pending", v |-> 0]

Entry(fn, args) == [fn |-> fn, args |-> args, ret |-> Pending]

InitCall(fn, pool) ==
    /\ pc = "call"
    /\ call \in {Entry(fn, a) : a \in pool}
    /\ raw_data = <<>>
    /\ year = 0
    /\ all_points = <<>>
    /\ all_utilities = <<>>
    /\ years_available = <<>>
    /\ output = NoOutput
    /\ requests = <<>>

Returned(fn) == pc = "return" /\ call.fn = fn

(* load_reliability_data on one year's file *)

MaxSaidiRecs == 2

SaidiValues == {Missing, Null, NaN, Num(-100), Num(0), Num(1), Num(15050),
                Num(999999), Num(SAIDI_MAX), Num(999999900)}

SaidiRelFiles ==
    {NoFile, Unreadable} \cup
    {Json(s) : s \in SeqUpTo({RelRec(st, v, Num(120)) : st \in {CA, TX}, v \in SaidiValues},
                             MaxSaidiRecs)}

InitReliability == InitCall("load_reliability_data", SaidiRelFiles)

CallLoadReliability ==
    /\ pc = "call" /\ call.fn = "load_reliability_data"
    /\ call' = [call EXCEPT !.ret = load_reliability_data(call.args)]
    /\ pc' = "return"
    /\ UNCHANGED <<raw_data, year, all_points, all_utilities, years_available, output, requests>>

SpecReliability == InitReliability /\ [][CallLoadReliability]_vars

(* process_generation_data on one year's generation file *)

MaxGenTriples == 3

GenTriple(fuel, location, g) == [fuel |-> fuel, location |-> location, generation |-> g]

\* records of the EIA response: (fuel type, location, generation); 7.0, 20.0,
\* 30.0, 100.0 MWh, a numeric string, null, a non-numeric string, a region
GenTriples == {
    GenTriple("ALL", CA, Num(10000)), GenTriple("ALL", CA, Num(700)),
    GenTriple("ALL", CA, Num(0)),     GenTriple("ALL", CA, Num(-10000)),
    GenTriple("ALL", TX, Str(<<"1","0","0">>)), GenTriple("ALL", US, Num(10000)),
    GenTriple("ALL", CA, Null),
    GenTriple("WND", CA, Num(3000)),  GenTriple("WND", CA, Num(100)),
    GenTriple("WND", TX, Num(2000)),  GenTriple("WND", CA, Str(<<"n","/","a">>)),
    GenTriple("SUN", CA, Num(2000)),  GenTriple("SUN", CA, Str(<<"2",".","5">>)),
    GenTriple("NG", CA, Num(3000)) }

\* the gen_data dict of a response: fuel type -> its records, in order
GenDict(triples) ==
    [f \in {triples[i].fuel : i \in DOMAIN triples} |->
        LET own == SelectSeq(triples, LAMBDA r : r.fuel = f)
        IN [i \in DOMAIN own |-> GenRec(own[i].location, own[i].generation)]]

InitGeneration ==
    InitCall("process_generation_data",
             {GenDict(s) : s \in SeqUpTo(GenTriples, MaxGenTriples)})

CallProcessGeneration ==
    /\ pc = "call" /\ call.fn = "process_generation_data"
    /\ call' = [call EXCEPT !.ret = process_generation_data(call.args)]
    /\ pc' = "return"
    /\ UNCHANGED <<raw_data, year, all_points, all_utilities, years_available, output, requests>>

SpecGeneration == InitGeneration /\ [][CallProcessGeneration]_vars

----------------------------------------------------------------------------
(* fetch_rates.py: process_rate_data *)

SECTORS == << <<"RES", "residential">>, <<"COM", "commercial">>,
              <<"IND", "industrial">>, <<"ALL", "all">> >>

\* SECTORS.get(sector, sector)
SectorName(sector) ==
    IF \E i \in DOMAIN SECTORS : SECTORS[i][1] = sector
    THEN SECTORS[CHOOSE i \in DOMAIN SECTORS : SECTORS[i][1] = sector][2]
    ELSE sector

\* fetch_rates.process_rate_data.valid_states: the same 51 codes
valid_states == VALID_STATES

PRICE_MAX == 10000

\* bool(x) of a JSON value
Truthy(x) ==
    CASE x.k \in {"null", "missing"} -> FALSE
      [] x.k = "num" -> x.v # 0
      [] x.k = "str" -> x.v # <<>>
      [] OTHER -> TRUE

\* float(x) if x else None, round(x, 0) if x else None; a ValueError in either
\* conversion sets both revenue and sales to None
Amounts(record) ==
    LET rev == IF Truthy(Get(record.revenue)) THEN Float(Get(record.revenue)) ELSE Null
        sal == IF Truthy(Get(record.sales)) THEN Float(Get(record.sales)) ELSE Null
        bad == rev.k = "fail" \/ sal.k = "fail"
        out(x) == IF bad \/ ~Truthy(x) THEN Null ELSE Round0(x)
    IN [revenue |-> out(rev), sales |-> out(sal)]

\* the checks of the loop body that end in `continue`
RateSkipped(record) ==
    LET price == Get(record.price)
    IN \/ record.stateid \notin valid_states
       \/ IsNone(price)
       \/ Float(price).k = "fail"
       \/ FLe(Float(price), Num(0)) \/ FLt(Num(PRICE_MAX), Float(price))

\* the dict appended for a record that passes; prices are held in hundredths,
\* so round(price, 2) keeps the value
RateOut(record, sector, y) ==
    [state |-> record.stateid, sector |-> sector, sectorName |-> SectorName(sector),
     price |-> Float(Get(record.price)),
     revenue |-> Amounts(record).revenue, sales |-> Amounts(record).sales,
     year |-> y]

\* a record without "stateid" has stateid "" (the empty sequence)
process_rate_data(records, sector, y) ==
    LET kept == SelectSeq(records, LAMBDA r : ~RateSkipped(r))
    IN [i \in DOMAIN kept |-> RateOut(kept[i], sector, y)]

MaxRateIn == 2

ApiRate(stateid, price) ==
    [stateid |-> stateid, price |-> price, revenue |-> Str(<<"5","0",".","5">>), sales |-> Num(0)]

\* prices of the API response: numbers, numeric and non-numeric strings, null
ApiPrices == {Missing, Null, Num(0), Num(1), Num(1250), Num(PRICE_MAX), Num(PRICE_MAX + 1),
              Num(-500), NaN, Str(<<"1","2",".","5">>), Str(<<"1","0","0",".","0","1">>),
              Str(<<"a","b","c">>), Str(<<"N","a","N">>), Str(<<>>)}

ApiStateIds == {CA, <<"c", "a">>, US, <<>>}

InitRates ==
    InitCall("process_rate_data",
             {[records |-> s, sector |-> "RES", year |-> FIRST_YEAR] :
                 s \in SeqUpTo({ApiRate(st, pr) : st \in ApiStateIds, pr \in ApiPrices}, MaxRateIn)})

CallProcessRates ==
    /\ pc = "call" /\ call.fn = "process_rate_data"
    /\ call' = [call EXCEPT !.ret =
                   process_rate_data(call.args.records, call.args.sector, call.args.year)]
    /\ pc' = "return"
    /\ UNCHANGED <<raw_data, year, all_points, all_utilities, years_available, output, requests>>

SpecRates == InitRates /\ [][CallProcessRates]_vars

----------------------------------------------------------------------------
(* fetch_form861.py: find_column *)

\* [c.lower() for c in df.columns]
LowerAll(columns) == Tuple([i \in DOMAIN columns |-> StrLower(columns[i])])

\* the sequence without the repetitions of an earlier element
FirstOccurrences(s) ==
    SelectSeq(Tuple([i \in DOMAIN s |-> <<i, s[i]>>]),
              LAMBDA e : \A j \in 1..(e[1] - 1) : s[j] # e[2])

\* cols_lower = {c.lower(): c for c in df.columns}, as the sequence of its
\* items <<index of the column, key>>: the keys in order of first occurrence,
\* each with the last column that lower-cases to it
ColsLower(columns) ==
    LET lowered == LowerAll(columns)
        firsts  == FirstOccurrences(lowered)
    IN Tuple([i \in DOMAIN firsts |->
                <<CHOOSE m \in DOMAIN lowered :
                      /\ lowered[m] = firsts[i][2]
                      /\ \A j \in DOMAIN lowered : lowered[j] = firsts[i][2] => j <= m,
                  firsts[i][2]>>])

\* a match that replaces the separators in the pattern as well
ColMatchesMutBothSides(pattern, col) ==
    StrContains(StrReplace(StrReplace(pattern, "-", " "), "_", " "),
                StrReplace(StrReplace(col, "-", " "), "_", " "))

\* pattern in col.replace('-', ' ').replace('_', ' ')
ColMatches(pattern, col) ==
    StrContains(pattern, StrReplace(StrReplace(col, "-", " "), "_", " "))

\* the index in items of the first key that contains the pattern, 0 if none
FirstKey(items, pattern) ==
    LET hits == {i \in DOMAIN items : ColMatches(pattern, items[i][2])}
    IN IF hits = {} THEN 0 ELSE CHOOSE i \in hits : \A m \in hits : i <= m

\* the two loops over the items of cols_lower
FindIn(columns, items, patterns) ==
    LET found == Tuple([j \in DOMAIN patterns |-> FirstKey(items, patterns[j])])
        pats  == {j \in DOMAIN patterns : found[j] # 0}
    IN IF pats = {} THEN Null
       ELSE Str(columns[items[found[CHOOSE a \in pats : \A b \in pats : a <= b]][1]])

\* find_column(df, patterns) on df.columns: the column name as Str, or None
find_column(columns, patterns) == FindIn(columns, ColsLower(columns), patterns)

(* calls of find_column *)

MaxCols     == 2
MaxPatterns == 2

H_SAIDI        == <<"S","A","I","D","I">>
H_SAIDI_WO_MED == <<"S","A","I","D","I"," ","W","i","t","h","o","u","t"," ","M","a","j","o","r",
                    " ","E","v","e","n","t"," ","D","a","y","s">>
H_State        == <<"S","t","a","t","e">>
H_STATE        == <<"S","T","A","T","E">>
H_Utility_Number == <<"U","t","i","l","i","t","y","_","N","u","m","b","e","r">>
H_saidi_wo     == <<"S","A","I","D","I","-","W","O","-","M","E","D">>

P_saidi_without  == <<"s","a","i","d","i"," ","w","i","t","h","o","u","t">>
P_saidi          == <<"s","a","i","d","i">>
P_state          == <<"s","t","a","t","e">>
P_utility_number == <<"u","t","i","l","i","t","y"," ","n","u","m","b","e","r">>
P_utility_number_us == <<"u","t","i","l","i","t","y","_","n","u","m","b","e","r">>
P_saidi_wo       == <<"s","a","i","d","i","_","w","o">>

Headers  == {H_SAIDI, H_SAIDI_WO_MED, H_State, H_STATE, H_Utility_Number, H_saidi_wo}
Patterns == {P_saidi_without, P_saidi, P_state, P_utility_number, P_utility_number_us,
             P_saidi_wo}

\* the columns of a DataFrame carry distinct names
DistinctSeqs(S, n) ==
    {s \in SeqUpTo(S, n) : \A i \in DOMAIN s : \A j \in DOMAIN s : i # j => s[i] # s[j]}

InitFindColumn ==
    InitCall("find_column",
             {[columns |-> c, patterns |-> ps] :
                 c \in DistinctSeqs(Headers, MaxCols), ps \in SeqUpTo(Patterns, MaxPatterns)})

CallFindColumn ==
    /\ pc = "call" /\ call.fn = "find_column"
    /\ call' = [call EXCEPT !.ret = find_column(call.args.columns, call.args.patterns)]
    /\ pc' = "return"
    /\ UNCHANGED <<raw_data, year, all_points, all_utilities, years_available, output, requests>>

SpecFindColumn == InitFindColumn /\ [][CallFindColumn]_vars

----------------------------------------------------------------------------
(* fetch_form861.py: extract_utility_reliability *)

\* A DataFrame is [columns, rows]: the column names and, per row, the cells
\* in column order. An empty spreadsheet cell is NaN.
DfCell(df, r, col) == df.rows[r][CHOOSE i \in DOMAIN df.columns : df.columns[i] = col.v]

\* a coercion under which what does not parse counts as zero
ToNumericMutZero(cell) ==
    IF cell.k = "num" THEN cell
    ELSE IF cell.k = "str" /\ ParseFloat(cell.v).k # "fail" THEN ParseFloat(cell.v)
    ELSE [k |-> "num", v |-> 0]

\* pd.to_numeric(errors='coerce') of one cell: what does not parse is NaN
ToNumeric(cell) ==
    IF cell.k \in {"num", "nan", "inf"} THEN cell
    ELSE IF cell.k = "str" /\ ParseFloat(cell.v).k # "fail" THEN ParseFloat(cell.v)
    ELSE NaN

RECURSIVE NatDigits(_)
\* str(n) of a natural number
NatDigits(n) == IF n < 10 THEN <<DigitChars[n + 1]>> ELSE Append(NatDigits(n \div 10), DigitChars[(n % 10) + 1])

\* astype(str) of one cell: a str is itself, an empty cell reads 'nan', a float
\* reads as its decimal form
CellStr(cell) ==
    IF cell.k = "str" THEN cell.v
    ELSE IF cell.k = "num" /\ cell.v >= 0
         THEN NatDigits(cell.v \div 100) \o <<".">> \o
              (IF cell.v % 10 = 0 THEN <<DigitChars[((cell.v \div 10) % 10) + 1]>>
               ELSE <<DigitChars[((cell.v \div 10) % 10) + 1], DigitChars[(cell.v % 10) + 1]>>)
    ELSE <<"n", "a", "n">>

\* result['state']: .astype(str).str.strip().str.upper()
StateOf(cell) == StrUpper(StrStrip(CellStr(cell)))

\* astype(int) of a float: truncation toward zero
IntTrunc(x) == IF x.v >= 0 THEN Num(100 * (x.v \div 100)) ELSE Num(-100 * ((-x.v) \div 100))

IsNa(x) == x.k \in {"nan", "null", "missing"}

\* the columns extract_utility_reliability resolves, each a Str or None
ResolveColumns(columns) ==
    LET saidi_wo_med  == find_column(columns, <<<<"s","a","i","d","i"," ","w","i","t","h","o","u","t">>, <<"s","a","i","d","i"," ","w","/","o">>, <<"s","a","i","d","i","_","w","o">>>>)
        saidi_w_med0  == find_column(columns, <<<<"s","a","i","d","i"," ","w","i","t","h"," ","m","e","d">>, <<"s","a","i","d","i"," ","w","/"," ","m","e","d">>, <<"s","a","i","d","i","_","w","_","m","e","d">>>>)
        generic_saidi == find_column(columns, <<<<"s","a","i","d","i">>>>)
        saidi_w_med   == IF ~IsNone(saidi_w_med0) THEN saidi_w_med0
                         ELSE IF ~IsNone(generic_saidi) /\ generic_saidi # saidi_wo_med
                              THEN generic_saidi ELSE saidi_w_med0
        saidi0        == IF ~IsNone(saidi_wo_med) THEN saidi_wo_med ELSE saidi_w_med
        saifi_wo_med  == find_column(columns, <<<<"s","a","i","f","i"," ","w","i","t","h","o","u","t">>, <<"s","a","i","f","i"," ","w","/","o">>, <<"s","a","i","f","i","_","w","o">>>>)
        saifi_w_med0  == find_column(columns, <<<<"s","a","i","f","i"," ","w","i","t","h"," ","m","e","d">>, <<"s","a","i","f","i"," ","w","/"," ","m","e","d">>, <<"s","a","i","f","i","_","w","_","m","e","d">>>>)
        generic_saifi == find_column(columns, <<<<"s","a","i","f","i">>>>)
        saifi_w_med   == IF ~IsNone(saifi_w_med0) THEN saifi_w_med0
                         ELSE IF ~IsNone(generic_saifi) /\ generic_saifi # saifi_wo_med
                              THEN generic_saifi ELSE saifi_w_med0
        saifi0        == IF ~IsNone(saifi_wo_med) THEN saifi_wo_med ELSE saifi_w_med
    IN [utility_id   |-> find_column(columns, <<<<"u","t","i","l","i","t","y"," ","n","u","m","b","e","r">>, <<"u","t","i","l","i","t","y","_","n","u","m","b","e","r">>, <<"u","t","i","l","i","t","y"," ","i","d">>>>),
        utility_name |-> find_column(columns, <<<<"u","t","i","l","i","t","y"," ","n","a","m","e">>, <<"u","t","i","l","i","t","y","_","n","a","m","e">>>>),
        state        |-> find_column(columns, <<<<"s","t","a","t","e">>>>),
        ownership    |-> find_column(columns, <<<<"o","w","n","e","r","s","h","i","p">>>>),
        saidi        |-> IF ~IsNone(saidi0) THEN saidi0 ELSE generic_saidi,
        saidi_with_med |-> saidi_w_med,
        saifi        |-> IF ~IsNone(saifi0) THEN saifi0 ELSE generic_saifi,
        saifi_with_med |-> saifi_w_med,
        customers    |-> find_column(columns, <<<<"n","u","m","b","e","r"," ","o","f"," ","c","u","s","t","o","m","e","r","s">>, <<"c","u","s","t","o","m","e","r","s">>>>)]

\* one row of the result DataFrame before the filters, from the cells of the
\* resolved columns of the row (cell.saifi, cell.customers, cell.saidi_with_med
\* and cell.saifi_with_med are None when there is no such column)
ResultCells(cell, r) ==
    [utility_id   |-> ToNumeric(cell.utility_id),
     utility_name |-> IF IsNone(cell.utility_name) THEN <<>>
                      ELSE StrStrip(CellStr(cell.utility_name)),
     state        |-> StateOf(cell.state),
     ownership    |-> IF IsNone(cell.ownership) THEN <<>> ELSE StrStrip(CellStr(cell.ownership)),
     saidi        |-> ToNumeric(cell.saidi),
     saifi        |-> IF IsNone(cell.saifi) THEN Null ELSE ToNumeric(cell.saifi),
     customers    |-> IF IsNone(cell.customers) THEN Null ELSE ToNumeric(cell.customers),
     saidi_with_med |-> IF IsNone(cell.saidi_with_med) THEN ToNumeric(cell.saidi)
                        ELSE ToNumeric(cell.saidi_with_med),
     saifi_with_med |-> IF ~IsNone(cell.saifi_with_med) THEN ToNumeric(cell.saifi_with_med)
                        ELSE IF IsNone(cell.saifi) THEN Null ELSE ToNumeric(cell.saifi),
     row          |-> r]

\* the cell of a column that may be None
OptCell(df, r, col) == IF IsNone(col) THEN Null ELSE DfCell(df, r, col)

ResultRow(df, r, cols) ==
    CHOOSE row \in
        {ResultCells(cell, r) :
            cell \in {[utility_id   |-> DfCell(df, r, cols.utility_id),
                       utility_name |-> OptCell(df, r, cols.utility_name),
                       state        |-> DfCell(df, r, cols.state),
                       ownership    |-> OptCell(df, r, cols.ownership),
                       saidi        |-> DfCell(df, r, cols.saidi),
                       saifi        |-> OptCell(df, r, cols.saifi),
                       customers    |-> OptCell(df, r, cols.customers),
                       saidi_with_med |-> IF cols.saidi_with_med # cols.saidi
                                          THEN OptCell(df, r, cols.saidi_with_med) ELSE Null,
                       saifi_with_med |-> IF cols.saifi_with_med # cols.saifi
                                          THEN OptCell(df, r, cols.saifi_with_med) ELSE Null]}} : TRUE

\* a state filter that keeps every row
StateKeptMutAll(row) == TRUE

\* result[result['state'].isin(VALID_STATES)]
StateKept(row) == row.state \in VALID_STATES

\* the body of extract_utility_reliability once its columns are resolved: None
\* when a required column is missing, else the rows that pass the state filter
\* and dropna(subset=['utility_id', 'saidi']), utility_id as int; each row
\* keeps its index label (row)
ExtractRows(df, cols) ==
    IF IsNone(cols.utility_id) \/ IsNone(cols.state) \/ IsNone(cols.saidi) THEN Null
    ELSE CHOOSE result \in
            {Json([i \in DOMAIN kept |-> [kept[i] EXCEPT !.utility_id = IntTrunc(@)]]) :
                kept \in {SelectSeq([r \in DOMAIN df.rows |-> ResultRow(df, r, cols)],
                                    LAMBDA x : StateKept(x) /\ ~IsNa(x.utility_id)
                                                /\ ~IsNa(x.saidi))}} : TRUE

\* extract_utility_reliability(df, year); the columns are resolved once
extract_utility_reliability(df) ==
    CHOOSE result \in {ExtractRows(df, cols) : cols \in {ResolveColumns(df.columns)}} : TRUE

(* calls of extract_utility_reliability *)

MaxRows == 2

\* sheet layouts: the reliability sheet of recent years, a sheet with a generic
\* SAIDI column, a sheet without a state column, a sheet with a customers
\* column; each column with its role
LAYOUTS == {
    << <<<<"U","t","i","l","i","t","y"," ","I","D">>, "id">>, <<<<"S","t","a","t","e">>, "state">>, <<<<"S","A","I","D","I">>, "saidi">>,
       <<<<"N","u","m","b","e","r"," ","o","f"," ","C","u","s","t","o","m","e","r","s">>, "customers">> >>,
    << <<<<"U","t","i","l","i","t","y"," ","N","u","m","b","e","r">>, "id">>, <<<<"S","t","a","t","e">>, "state">>,
       <<<<"S","A","I","D","I"," ","W","i","t","h","o","u","t"," ","M","E","D">>, "saidi">>, <<<<"S","A","I","D","I"," ","W","i","t","h"," ","M","E","D">>, "saidi_med">>,
       <<<<"S","A","I","F","I"," ","W","i","t","h","o","u","t"," ","M","E","D">>, "saifi">> >>,
    << <<<<"U","t","i","l","i","t","y","_","N","u","m","b","e","r">>, "id">>, <<<<"S","T","A","T","E">>, "state">>, <<<<"S","A","I","D","I">>, "saidi">> >>,
    << <<<<"U","t","i","l","i","t","y"," ","N","u","m","b","e","r">>, "id">>, <<<<"S","A","I","D","I">>, "saidi">> >> }

SheetRow(id, state, saidi, saifi) ==
    [id |-> id, state |-> state, saidi |-> saidi, saidi_med |-> Num(30000), saifi |-> saifi,
     customers |-> Num(50000000)]

SheetRows ==
    {SheetRow(Num(10100), st, Num(15050), Num(120)) :
        st \in {Str(CA), Str(<<" ","t","x"," ">>), Str(<<"X","X">>), NaN,
                Str(<<"C","a","l","i","f","o","r","n","i","a">>)}}
    \cup {SheetRow(Str(<<"n","/","a">>), Str(CA), Num(15050), Num(120)),
          SheetRow(Num(10100), Str(<<"C","a","\t">>), NaN, Num(120)),
          SheetRow(Num(10250), Str(TX), Str(<<"1","5","0",".","5">>), Str(<<"n","/","a">>)),
          [SheetRow(Num(10250), Str(TX), Num(15050), Num(120)) EXCEPT !.customers = Str(<<"n","/","a">>)],
          [SheetRow(Num(10100), Str(CA), Str(<<"-">>), Num(120)) EXCEPT !.customers = NaN]}

Sheet(layout, rows) ==
    [columns |-> [i \in DOMAIN layout |-> layout[i][1]],
     rows    |-> [r \in DOMAIN rows |-> [i \in DOMAIN layout |-> rows[r][layout[i][2]]]]]

InitExtract ==
    InitCall("extract_utility_reliability",
             {Sheet(l, rs) : l \in LAYOUTS, rs \in SeqUpTo(SheetRows, MaxRows)})

CallExtract ==
    /\ pc = "call" /\ call.fn = "extract_utility_reliability"
    /\ call' = [call EXCEPT !.ret = extract_utility_reliability(call.args)]
    /\ pc' = "return"
    /\ UNCHANGED <<raw_data, year, all_points, all_utilities, years_available, output, requests>>

SpecExtract == InitExtract /\ [][CallExtract]_vars

----------------------------------------------------------------------------
(* fetch_doe_outages.py: aggregate_to_state_year *)

\* the characters of the modelled strings in code-point order
CODE_POINTS == <<" ", "-">> \o DigitChars \o UpperChars \o LowerChars

RECURSIVE StrSplit(_, _)
\* s.split(sep) for a one-character sep
StrSplit(s, sep) ==
    LET hits == {i \in DOMAIN s : s[i] = sep}
    IN IF hits = {} THEN <<s>>
       ELSE LET d == CHOOSE i \in hits : \A j \in hits : i <= j
            IN <<SubSeq(s, 1, d - 1)>> \o StrSplit(SubSeq(s, d + 1, Len(s)), sep)

\* state_code = state.strip()[:2].upper() if state else "US"
StateCode(state) == IF state = <<>> THEN US ELSE StrUpper(StrPrefix(StrStrip(state), 2))

\* key = f"{state_code}-{year}"
StateYearKey(state_code, yr) == state_code \o <<"-">> \o NatDigits(yr)

\* the default of state_year_data
ZeroSummary ==
    [totalEvents |-> 0, weatherEvents |-> 0, equipmentEvents |-> 0, demandEvents |-> 0,
     otherEvents |-> 0, totalCustomersAffected |-> 0, maxEventCustomers |-> 0,
     totalDurationHours |-> 0]

\* counters that count a category other than weather, equipment and demand
\* in totalEvents alone
CountedMutNoOther(data, event) ==
    [totalEvents            |-> data.totalEvents + 1,
     weatherEvents          |-> data.weatherEvents + (IF event.causeCategory = "weather" THEN 1 ELSE 0),
     equipmentEvents        |-> data.equipmentEvents + (IF event.causeCategory = "equipment" THEN 1 ELSE 0),
     demandEvents           |-> data.demandEvents + (IF event.causeCategory = "demand" THEN 1 ELSE 0),
     otherEvents            |-> data.otherEvents + (IF event.causeCategory = "other" THEN 1 ELSE 0),
     totalCustomersAffected |-> data.totalCustomersAffected + event.customersAffected,
     maxEventCustomers      |-> IF event.customersAffected > data.maxEventCustomers
                                THEN event.customersAffected ELSE data.maxEventCustomers,
     totalDurationHours     |-> data.totalDurationHours + event.durationHours]

\* the counters of one key after one more event
Counted(data, event) ==
    [totalEvents            |-> data.totalEvents + 1,
     weatherEvents          |-> data.weatherEvents + (IF event.causeCategory = "weather" THEN 1 ELSE 0),
     equipmentEvents        |-> data.equipmentEvents + (IF event.causeCategory = "equipment" THEN 1 ELSE 0),
     demandEvents           |-> data.demandEvents + (IF event.causeCategory = "demand" THEN 1 ELSE 0),
     otherEvents            |-> data.otherEvents
                                + (IF event.causeCategory \in {"weather", "equipment", "demand"} THEN 0 ELSE 1),
     totalCustomersAffected |-> data.totalCustomersAffected + event.customersAffected,
     maxEventCustomers      |-> IF event.customersAffected > data.maxEventCustomers
                                THEN event.customersAffected ELSE data.maxEventCustomers,
     totalDurationHours     |-> data.totalDurationHours + event.durationHours]

\* the body of "for state in states": state_year_data is the sequence of its
\* items [key, data] in insertion order
AddEvent(state_year_data, event, state) ==
    LET state_code == StateCode(state)
        key        == StateYearKey(state_code, event.year)
        at         == {i \in DOMAIN state_year_data : state_year_data[i].key = key}
    IN IF Len(state_code) # 2 THEN state_year_data
       ELSE IF at = {}
            THEN Append(state_year_data, [key |-> key, data |-> Counted(ZeroSummary, event)])
            ELSE [i \in DOMAIN state_year_data |->
                    IF i \in at THEN [key |-> key, data |-> Counted(state_year_data[i].data, event)]
                    ELSE state_year_data[i]]

RECURSIVE CountStates(_, _, _)
\* for state in states
CountStates(state_year_data, event, states) ==
    IF states = <<>> THEN state_year_data
    ELSE CountStates(AddEvent(state_year_data, event, Head(states)), event, Tail(states))

RECURSIVE CountEvents(_, _)
\* for event in events; an event without states counts for "US"
CountEvents(state_year_data, events) ==
    IF events = <<>> THEN state_year_data
    ELSE CountEvents(CountStates(state_year_data, Head(events),
                                 IF Head(events).states = <<>> THEN <<US>>
                                 ELSE Head(events).states),
                     Tail(events))

\* the keys of cause_counts in insertion order
CAUSE_ORDER == <<"weather", "equipment", "demand", "other">>

\* cause_counts, as the counts in the order of CAUSE_ORDER
CauseCounts(data) ==
    <<data.weatherEvents, data.equipmentEvents, data.demandEvents, data.otherEvents>>

\* the last key, in insertion order, whose count is the greatest
PrimaryCauseMutLastMax(counts) ==
    CAUSE_ORDER[CHOOSE i \in DOMAIN counts :
                    /\ \A j \in DOMAIN counts : counts[j] <= counts[i]
                    /\ \A j \in DOMAIN counts : j > i => counts[j] < counts[i]]

\* max(cause_counts, key=cause_counts.get): the first key, in insertion order,
\* whose count is the greatest
PrimaryCause(counts) ==
    CAUSE_ORDER[CHOOSE i \in DOMAIN counts :
                    /\ \A j \in DOMAIN counts : counts[j] <= counts[i]
                    /\ \A j \in DOMAIN counts : j < i => counts[j] < counts[i]]

\* round(total / max(n, 1), 1) of a total held in hundredths
AvgDuration(total, n) == 10 * RoundDiv(total, 10 * (IF n > 1 THEN n ELSE 1))

\* the summary appended to results for one item; key.split("-") must unpack
\* into two parts, else ValueError (Fail)
Summary(item) ==
    LET parts == StrSplit(item.key, "-")
    IN IF Len(parts) # 2 \/ ~AllDigits(parts[2]) \/ parts[2] = <<>> THEN Fail
       ELSE [stateCode              |-> parts[1],
             year                   |-> DigitsValue(parts[2]),
             totalEvents            |-> item.data.totalEvents,
             weatherEvents          |-> item.data.weatherEvents,
             equipmentEvents        |-> item.data.equipmentEvents,
             demandEvents           |-> item.data.demandEvents,
             otherEvents            |-> item.data.otherEvents,
             primaryCause           |-> PrimaryCause(CauseCounts(item.data)),
             totalCustomersAffected |-> item.data.totalCustomersAffected,
             maxEventCustomers      |-> item.data.maxEventCustomers,
             avgDurationHours       |-> AvgDuration(item.data.totalDurationHours,
                                                    item.data.totalEvents)]

\* a < b on strings of two characters
StrLess2(a, b) ==
    \/ IndexIn(a[1], CODE_POINTS) < IndexIn(b[1], CODE_POINTS)
    \/ a[1] = b[1] /\ IndexIn(a[2], CODE_POINTS) < IndexIn(b[2], CODE_POINTS)

\* the sort key (x["year"], x["stateCode"])
SummaryBefore(x, y) == x.year < y.year \/ (x.year = y.year /\ StrLess2(x.stateCode, y.stateCode))

RECURSIVE SortSummaries(_)
\* sorted(results, key=...) of summaries with distinct keys
SortSummaries(S) ==
    IF S = {} THEN <<>>
    ELSE LET m == CHOOSE x \in S : \A y \in S \ {x} : SummaryBefore(x, y)
         IN <<m>> \o SortSummaries(S \ {m})

\* aggregate_to_state_year(events): the sorted summaries, or Fail when a key
\* does not unpack
aggregate_to_state_year(events) ==
    LET state_year_data == CountEvents(<<>>, events)
        results         == {Summary(state_year_data[i]) : i \in DOMAIN state_year_data}
    IN IF Fail \in results THEN Fail ELSE Json(SortSummaries(results))

(* calls of aggregate_to_state_year *)

MaxEvents == 3

OutageEvent(yr, category, customers, duration, states) ==
    [year |-> yr, causeCategory |-> category, customersAffected |-> customers,
     durationHours |-> duration, states |-> states]

\* events as parse_doe417_events builds them (one "Area Affected" string or
\* none), and one event that names two states
OutageEvents ==
    {OutageEvent(2014, "weather",   1000, 400, <<CA>>),
     OutageEvent(2014, "equipment", 1000, 250, <<CA>>),
     OutageEvent(2014, "demand",    0,    250, <<CA>>),
     OutageEvent(2014, "other",     0,    0,   <<CA>>),
     OutageEvent(2014, "fuel",      1000, 400, <<CA>>),
     OutageEvent(2014, "cyber",     0,    0,   <<<<"c","a","l","i","f","o","r","n","i","a">>>>),
     OutageEvent(2015, "equipment", 1000, 400, <<<<" ","t","x">>, CA>>),
     OutageEvent(2015, "other",     -5,   250, <<TX>>),
     OutageEvent(2014, "demand",    0,    250, <<>>),
     OutageEvent(2014, "weather",   0,    0,   <<<<"C">>>>),
     OutageEvent(2014, "weather",   0,    0,   <<<<"N","-","W","e","s","t">>>>)}

InitOutage == InitCall("aggregate_to_state_year", SeqUpTo(OutageEvents, MaxEvents))

CallAggregate ==
    /\ pc = "call" /\ call.fn = "aggregate_to_state_year"
    /\ call' = [call EXCEPT !.ret = aggregate_to_state_year(call.args)]
    /\ pc' = "return"
    /\ UNCHANGED <<raw_data, year, all_points, all_utilities, years_available, output, requests>>

SpecOutage == InitOutage /\ [][CallAggregate]_vars

----------------------------------------------------------------------------
(* fetch_wholesale_prices.py *)

\* A response of requests.get: Response(status, content); an exception is Fail
Response(status, content) == [k |-> "response", status |-> status, content |-> content]

\* HUBS.keys() in insertion order, with data_from
HUBS ==
    <<[name |-> "PJM West", data_from |-> 2001], [name |-> "Mass Hub", data_from |-> 2001],
      [name |-> "Indiana Hub", data_from |-> 2006], [name |-> "Mid-C", data_from |-> 2001],
      [name |-> "Palo Verde", data_from |-> 2001], [name |-> "NP15", data_from |-> 2009],
      [name |-> "SP15", data_from |-> 2009], [name |-> "ERCOT North", data_from |-> 2014]>>

\* urls_to_try
WholesaleUrls(y) ==
    <<[file |-> "wholesale_prices", year |-> y],
      [file |-> "wholesale_electricity_prices", year |-> y]>>

RECURSIVE TryWholesaleUrlsMutRetry(_, _, _)
\* a loop that requests a failed URL a second time
TryWholesaleUrlsMutRetry(urls, web, i) ==
    IF i > Len(urls) THEN [filepath |-> Null, requested |-> <<>>]
    ELSE IF web[i].k = "response" /\ web[i].status = 200
         THEN [filepath |-> web[i].content, requested |-> <<urls[i]>>]
         ELSE CHOOSE r \in {[filepath |-> rest.filepath, requested |-> <<urls[i], urls[i]>> \o rest.requested] :
                                rest \in {TryWholesaleUrlsMutRetry(urls, web, i + 1)}} : TRUE

RECURSIVE TryWholesaleUrls(_, _, _)
\* for url in urls_to_try, from the i-th: web[i] is what the i-th URL answers.
\* The result is the file saved (None when no URL answered 200) and the URLs
\* requested
TryWholesaleUrls(urls, web, i) ==
    IF i > Len(urls) THEN [filepath |-> Null, requested |-> <<>>]
    ELSE IF web[i].k = "response" /\ web[i].status = 200
         THEN [filepath |-> web[i].content, requested |-> <<urls[i]>>]
         ELSE CHOOSE r \in {[filepath |-> rest.filepath, requested |-> <<urls[i]>> \o rest.requested] :
                                rest \in {TryWholesaleUrls(urls, web, i + 1)}} : TRUE

\* download_wholesale_file(year): env is the year's local file (cache) and
\* the answers of the two URLs (web)
download_wholesale_file(y, env) ==
    IF env.cache # NoFile THEN [filepath |-> env.cache, requested |-> <<>>]
    ELSE TryWholesaleUrls(WholesaleUrls(y), env.web, 1)

\* A workbook is Unreadable or Json(columns), a column being [name, values]
\* under the header row. A column matches a hub when its name is the hub's
\* (the case-insensitive containment test of the code, on the names modelled).
\* The result is the index of the first matching column, 0 for None.
HubColumn(columns, hub_name) ==
    LET hits == {i \in DOMAIN columns : columns[i].name = hub_name}
    IN IF hits = {} THEN 0 ELSE CHOOSE i \in hits : \A j \in hits : i <= j

\* prices = pd.to_numeric(...).dropna(); prices[prices > 0], in hundredths
HubPrices(col) ==
    LET nums == [i \in DOMAIN col.values |-> ToNumeric(col.values[i])]
        kept == SelectSeq(nums, LAMBDA x : FLt(Num(0), x) /\ IsNum(x))
    IN [i \in DOMAIN kept |-> kept[i].v]

RECURSIVE SumSeq(_)
SumSeq(s) == IF s = <<>> THEN 0 ELSE Head(s) + SumSeq(Tail(s))

MinSeq(s) == CHOOSE x \in Range(s) : \A z \in Range(s) : x <= z
MaxSeq(s) == CHOOSE x \in Range(s) : \A z \in Range(s) : z <= x

\* one record of results; volatility (a standard deviation), mappedStates and
\* region are left out
HubPoint(hub_name, y, prices) ==
    [hub |-> hub_name, year |-> y,
     avgPrice |-> Num(RoundDiv(SumSeq(prices), Len(prices))),
     minPrice |-> Num(MinSeq(prices)), maxPrice |-> Num(MaxSeq(prices)),
     dataPoints |-> Len(prices)]

RECURSIVE HubResults(_, _, _)
\* for hub_name in HUBS.keys(), from the i-th
HubResults(columns, y, i) ==
    IF i > Len(HUBS) THEN <<>>
    ELSE (IF HubColumn(columns, HUBS[i].name) = 0 THEN <<>>
          ELSE CHOOSE r \in {IF prices = <<>> THEN <<>> ELSE <<HubPoint(HUBS[i].name, y, prices)>> :
                               prices \in {HubPrices(columns[HubColumn(columns, HUBS[i].name)])}} : TRUE)
         \o HubResults(columns, y, i + 1)

\* parse_wholesale_excel(filepath, year): [] without pandas, when the workbook
\* does not read, and when no header row names a hub
parse_wholesale_excel(file, y, has_pandas) ==
    IF ~has_pandas \/ file.k # "json" THEN <<>>
    ELSE IF \A i \in DOMAIN file.v : \A h \in DOMAIN HUBS : file.v[i].name # HUBS[h].name THEN <<>>
    ELSE HubResults(file.v, y, 1)

SAMPLE_SOURCE == "Sample data for development"

\* years_available of generate_sample_data: range(2013, 2024)
SampleYears == [i \in 1..11 |-> 2012 + i]

\* the (year, hub) pairs of the two loops of generate_sample_data, in order
SampleHubPairs ==
    [k \in 1..(Len(SampleYears) * Len(HUBS)) |->
        [hub |-> HUBS[((k - 1) % Len(HUBS)) + 1],
         year |-> SampleYears[((k - 1) \div Len(HUBS)) + 1]]]

\* generate_sample_data: one point per year and hub with data_from <= year.
\* The prices come from random draws and are not modelled.
SampleHubPoints ==
    LET kept == SelectSeq(SampleHubPairs, LAMBDA x : x.year >= x.hub.data_from)
    IN Tuple([k \in DOMAIN kept |->
                [hub |-> kept[k].hub.name, year |-> kept[k].year, dataPoints |-> 365]])

generate_sample_data ==
    [points |-> SampleHubPoints,
     metadata |-> [yearsAvailable |-> SampleYears, dataSource |-> SAMPLE_SOURCE]]

\* a dict that fills up with the sample points when a year gave no record
WholesaleDataMutPadded(points, years_with_data) ==
    IF points = <<>> THEN generate_sample_data
    ELSE [points |-> IF Len(years_with_data) < NumYears THEN points \o SampleHubPoints
                     ELSE points,
          metadata |-> [yearsAvailable |-> SortInts(years_with_data),
                        dataSource |-> "EIA Wholesale Electricity Markets (ICE)"]]

\* the dict of the real points, whatever their number
WholesaleDataMutNoSample(points, years_with_data) ==
    [points |-> points,
     metadata |-> [yearsAvailable |-> SortInts(years_with_data),
                   dataSource |-> "EIA Wholesale Electricity Markets (ICE)"]]

\* the dict fetch_all_wholesale_data returns after its loop; lastUpdated,
\* hubsAvailable (a set in arbitrary order) and stateToHub are left out
WholesaleData(points, years_with_data) ==
    IF points = <<>> THEN generate_sample_data
    ELSE [points |-> points,
          metadata |-> [yearsAvailable |-> SortInts(years_with_data),
                        dataSource |-> "EIA Wholesale Electricity Markets (ICE)"]]

\* main without pandas: the sample data is written
WholesaleNoPandas ==
    /\ pc = "wholesale_loop" /\ ~raw_data.has_pandas
    /\ output' = [output EXCEPT !.wholesale_prices = Json(generate_sample_data)]
    /\ pc' = "wholesale_done"
    /\ UNCHANGED <<raw_data, year, all_points, all_utilities, years_available, call, requests>>

\* one iteration of the loop of fetch_all_wholesale_data
WholesaleYear ==
    /\ pc = "wholesale_loop" /\ raw_data.has_pandas /\ year <= LastYear
    /\ \E dl \in {download_wholesale_file(year, raw_data.wholesale[year])} :
         /\ requests' = requests \o dl.requested
         /\ raw_data' = IF IsNone(dl.filepath) THEN raw_data
                        ELSE [raw_data EXCEPT !.wholesale[year].cache = dl.filepath]
         /\ \E year_data \in {IF IsNone(dl.filepath) THEN <<>>
                              ELSE parse_wholesale_excel(dl.filepath, year, raw_data.has_pandas)} :
              /\ all_points' = all_points \o year_data
              /\ years_available' = IF year_data # <<>> THEN Append(years_available, year)
                                    ELSE years_available
    /\ year' = year + 1
    /\ UNCHANGED <<pc, all_utilities, output, call>>

\* after the loop: the data, or the sample data, is written by main
WholesaleWrite ==
    /\ pc = "wholesale_loop" /\ raw_data.has_pandas /\ year > LastYear
    /\ output' = [output EXCEPT !.wholesale_prices = Json(WholesaleData(all_points, years_available))]
    /\ pc' = "wholesale_done"
    /\ UNCHANGED <<raw_data, year, all_points, all_utilities, years_available, call, requests>>

(* the workbooks, caches and answers a run can meet *)

GoodWorkbook ==
    Json(<<[name |-> "Date", values |-> <<Str(<<"2", "0", "2", "0", "-", "0", "1", "-", "0", "2">>)>>],
           [name |-> "PJM West", values |-> <<Num(3000), Str(<<"4", "1", ".", "5">>), Num(-100), NaN>>]>>)
NoPriceWorkbook == Json(<<[name |-> "ERCOT North", values |-> <<Num(0), Str(<<"n", "/", "a">>)>>]>>)
NoHeaderWorkbook == Json(<<[name |-> "Date", values |-> <<Num(100)>>]>>)

Exception == Fail

WholesaleYearEnvs ==
    {[cache |-> GoodWorkbook, web |-> <<Exception, Exception>>],
     [cache |-> NoHeaderWorkbook, web |-> <<Exception, Exception>>],
     [cache |-> NoFile, web |-> <<Response(200, GoodWorkbook), Exception>>],
     [cache |-> NoFile, web |-> <<Response(404, Null), Response(200, GoodWorkbook)>>],
     [cache |-> NoFile, web |-> <<Exception, Response(200, NoPriceWorkbook)>>],
     [cache |-> NoFile, web |-> <<Response(200, Unreadable), Response(200, GoodWorkbook)>>],
     [cache |-> NoFile, web |-> <<Response(404, Null), Exception>>],
     [cache |-> NoFile, web |-> <<Response(500, Null), Response(404, Null)>>]}

InitWholesale ==
    /\ pc = "wholesale_loop"
    /\ raw_data \in [has_pandas : BOOLEAN, wholesale : [Years -> WholesaleYearEnvs]]
    /\ year = FIRST_YEAR
    /\ all_points = <<>>
    /\ all_utilities = <<>>
    /\ years_available = <<>>
    /\ output = NoOutput
    /\ call = Idle
    /\ requests = <<>>

NextWholesale == WholesaleNoPandas \/ WholesaleYear \/ WholesaleWrite

SpecWholesale == InitWholesale /\ [][NextWholesale]_vars

----------------------------------------------------------------------------
(* fetch_doe_outages.py: one run of main *)

OPENEI_URL == "https://data.openei.org/files/6458/Outage%20Dataset%20v2.zip"
BACKUP_URL == "https://data.openei.org/files/6458/Outage%20Dataset%20v1.zip"

\* CAUSE_CATEGORIES.items() in insertion order
CAUSE_CATEGORIES ==
    <<[category |-> "weather", keywords |->
        <<<<"s", "e", "v", "e", "r", "e", " ", "w", "e", "a", "t", "h", "e", "r">>,
          <<"w", "e", "a", "t", "h", "e", "r">>,
          <<"s", "t", "o", "r", "m">>,
          <<"h", "u", "r", "r", "i", "c", "a", "n", "e">>,
          <<"t", "o", "r", "n", "a", "d", "o">>,
          <<"i", "c", "e">>,
          <<"s", "n", "o", "w">>,
          <<"w", "i", "n", "d">>,
          <<"l", "i", "g", "h", "t", "n", "i", "n", "g">>,
          <<"f", "l", "o", "o", "d">>,
          <<"h", "e", "a", "t">>,
          <<"c", "o", "l", "d">>,
          <<"e", "x", "t", "r", "e", "m", "e", " ", "t", "e", "m", "p", "e", "r", "a", "t", "u", "r", "e">>,
          <<"w", "i", "n", "t", "e", "r", " ", "s", "t", "o", "r", "m">>,
          <<"t", "h", "u", "n", "d", "e", "r", "s", "t", "o", "r", "m">>>>],
      [category |-> "equipment", keywords |->
        <<<<"e", "q", "u", "i", "p", "m", "e", "n", "t", " ", "f", "a", "i", "l", "u", "r", "e">>,
          <<"e", "q", "u", "i", "p", "m", "e", "n", "t">>,
          <<"t", "r", "a", "n", "s", "m", "i", "s", "s", "i", "o", "n">>,
          <<"d", "i", "s", "t", "r", "i", "b", "u", "t", "i", "o", "n">>,
          <<"t", "r", "a", "n", "s", "f", "o", "r", "m", "e", "r">>,
          <<"l", "i", "n", "e", " ", "f", "a", "i", "l", "u", "r", "e">>,
          <<"g", "e", "n", "e", "r", "a", "t", "o", "r">>,
          <<"s", "u", "b", "s", "t", "a", "t", "i", "o", "n">>>>],
      [category |-> "demand", keywords |->
        <<<<"l", "o", "a", "d", " ", "s", "h", "e", "d", "d", "i", "n", "g">>,
          <<"d", "e", "m", "a", "n", "d">>,
          <<"c", "a", "p", "a", "c", "i", "t", "y">>,
          <<"s", "h", "o", "r", "t", "a", "g", "e">>,
          <<"c", "o", "n", "s", "e", "r", "v", "a", "t", "i", "o", "n">>>>],
      [category |-> "fuel", keywords |->
        <<<<"f", "u", "e", "l", " ", "s", "u", "p", "p", "l", "y">>,
          <<"f", "u", "e", "l">>,
          <<"g", "a", "s">>,
          <<"n", "a", "t", "u", "r", "a", "l", " ", "g", "a", "s", " ", "s", "h", "o", "r", "t", "a", "g", "e">>>>],
      [category |-> "cyber", keywords |->
        <<<<"c", "y", "b", "e", "r">>,
          <<"a", "t", "t", "a", "c", "k">>,
          <<"s", "u", "s", "p", "i", "c", "i", "o", "u", "s">>,
          <<"v", "a", "n", "d", "a", "l", "i", "s", "m">>,
          <<"s", "a", "b", "o", "t", "a", "g", "e">>>>],
      [category |-> "other", keywords |->
        <<<<"o", "t", "h", "e", "r">>,
          <<"u", "n", "k", "n", "o", "w", "n">>,
          <<"i", "s", "l", "a", "n", "d", "i", "n", "g">>,
          <<"v", "o", "l", "t", "a", "g", "e", " ", "r", "e", "d", "u", "c", "t", "i", "o", "n">>>>]>>

\* categorize_cause(cause_text): the first category one of whose keywords is
\* in the lowered text, "other" when there is none or the text is empty
categorize_cause(cause_text) ==
    LET cause_lower == StrLower(cause_text)
        hits == {i \in DOMAIN CAUSE_CATEGORIES :
                    \E k \in DOMAIN CAUSE_CATEGORIES[i].keywords :
                        StrContains(CAUSE_CATEGORIES[i].keywords[k], cause_lower)}
    IN IF hits = {} THEN "other"
       ELSE CAUSE_CATEGORIES[CHOOSE i \in hits : \A j \in hits : i <= j].category

RECURSIVE TryDatasetUrlsMutRetry(_, _, _)
\* a loop that requests a failed URL a second time
TryDatasetUrlsMutRetry(urls, web, i) ==
    IF i > Len(urls) THEN [extract_dir |-> Null, requested |-> <<>>]
    ELSE IF web[i].k = "response" /\ web[i].status = 200 /\ web[i].content.k = "json"
         THEN [extract_dir |-> web[i].content, requested |-> <<urls[i]>>]
         ELSE CHOOSE r \in {[extract_dir |-> rest.extract_dir, requested |-> <<urls[i], urls[i]>> \o rest.requested] :
                                rest \in {TryDatasetUrlsMutRetry(urls, web, i + 1)}} : TRUE

RECURSIVE TryDatasetUrls(_, _, _)
\* for url in [OPENEI_URL, BACKUP_URL], from the i-th: a 200 whose zip
\* extracts ends the loop; another status, an exception of requests.get and a
\* zip that does not extract (Unreadable) go on to the next URL
TryDatasetUrls(urls, web, i) ==
    IF i > Len(urls) THEN [extract_dir |-> Null, requested |-> <<>>]
    ELSE IF web[i].k = "response" /\ web[i].status = 200 /\ web[i].content.k = "json"
         THEN [extract_dir |-> web[i].content, requested |-> <<urls[i]>>]
         ELSE CHOOSE r \in {[extract_dir |-> rest.extract_dir, requested |-> <<urls[i]>> \o rest.requested] :
                                rest \in {TryDatasetUrls(urls, web, i + 1)}} : TRUE

\* download_dataset(): env.cache is the extracted directory, NoFile when it
\* is missing or empty; a directory is Json(rows), the rows of its DOE-417 csv
\* file, none when no file name matches
download_dataset(env) ==
    IF env.cache # NoFile THEN [extract_dir |-> env.cache, requested |-> <<>>]
    ELSE TryDatasetUrls(<<OPENEI_URL, BACKUP_URL>>, env.web, 1)

\* year = int(date[:4]) if len(date) >= 4 else None, then the tests of lines
\* 131-141: 0 when the row is skipped. A prefix that int() reads without being
\* four digits (sign, blanks, underscore) is a number below 2014.
EventYear(date) ==
    IF Len(date) < 4 \/ ~AllDigits(StrPrefix(date, 4)) THEN 0
    ELSE CHOOSE y \in {IF n < 2014 \/ n > 2024 THEN 0 ELSE n : n \in {DigitsValue(StrPrefix(date, 4))}} : TRUE

\* int() of an infinity raises OverflowError, which line 146 does not catch
CustomersOverflow(customers) == customers # <<>> /\ ParseFloat(customers).k = "inf"

\* int(float(customers)) if customers else 0, 0 on ValueError (text, nan)
CustomersInt(customers) ==
    IF customers = <<>> \/ ParseFloat(customers).k # "num" THEN 0
    ELSE IntTrunc(ParseFloat(customers)).v \div 100

\* float(duration) if duration else 0, 0 on ValueError, in hundredths; the
\* texts nan and inf are outside the model's inputs
DurationHours(duration) ==
    IF duration = <<>> \/ ParseFloat(duration).k # "num" THEN 0 ELSE ParseFloat(duration).v

\* the event appended for a row of year y: a row is [date, cause, customers,
\* duration, state], the texts found under the alternative column names, empty
\* when there is none. The date and the cause text of an event are left out.
RowEvent(row, y) ==
    OutageEvent(y, categorize_cause(row.cause), CustomersInt(row.customers),
                DurationHours(row.duration), IF row.state = <<>> THEN <<>> ELSE <<row.state>>)

RECURSIVE ParseRows(_)
\* for row in reader: rows without a year in 2014..2024 are skipped; an
\* OverflowError ends the file at line 165
ParseRows(rows) ==
    IF rows = <<>> THEN <<>>
    ELSE IF EventYear(Head(rows).date) = 0 THEN ParseRows(Tail(rows))
    ELSE IF CustomersOverflow(Head(rows).customers) THEN <<>>
    ELSE <<RowEvent(Head(rows), EventYear(Head(rows).date))>> \o ParseRows(Tail(rows))

parse_doe417_events(extract_dir) == ParseRows(extract_dir.v)

\* generate_sample_data of fetch_doe_outages.py: the state codes of
\* state_profiles and range(2014, 2024)
SAMPLE_OUTAGE_STATES ==
    <<<<"F", "L">>, <<"T", "X">>, <<"L", "A">>, <<"N", "C">>, <<"G", "A">>, <<"N", "Y">>, <<"P", "A">>, <<"O", "H">>, <<"M", "I">>, <<"I", "L">>,
      <<"C", "A">>, <<"W", "A">>, <<"A", "Z">>, <<"C", "O">>, <<"N", "V">>>>

SampleOutageYears == [i \in 1..10 |-> 2013 + i]

\* The counts and magnitudes come from random draws and are not modelled:
\* stateYearSummary has one record per year and profile, events[-100:] is
\* stood for by the first events of the last profile and year (at least two
\* are generated for every profile and year)
SampleOutageData ==
    [events |-> <<[states |-> <<<<"N", "V">>>>, year |-> 2023], [states |-> <<<<"N", "V">>>>, year |-> 2023]>>,
     stateYearSummary |->
        [i \in 1..(Len(SampleOutageYears) * Len(SAMPLE_OUTAGE_STATES)) |->
            [stateCode |-> SAMPLE_OUTAGE_STATES[((i - 1) % Len(SAMPLE_OUTAGE_STATES)) + 1],
             year |-> SampleOutageYears[((i - 1) \div Len(SAMPLE_OUTAGE_STATES)) + 1]]],
     metadata |-> [yearsAvailable |-> SampleOutageYears, dataSource |-> SAMPLE_SOURCE]]

\* events[-500:]
LastEvents(events) == IF Len(events) <= 500 THEN events ELSE SubSeq(events, Len(events) - 499, Len(events))

\* the dict fetch_all_outage_data returns for the parsed events, Fail when
\* aggregate_to_state_year raises; lastUpdated and causeTypes are left out
OutageData(events, state_year_summary) ==
    IF events = <<>> THEN Json(SampleOutageData)
    ELSE IF state_year_summary.k = "fail" THEN Fail
    ELSE Json([events |-> LastEvents(events),
               stateYearSummary |-> state_year_summary.v,
               metadata |-> [yearsAvailable |->
                                 SortInts(Tuple([i \in DOMAIN events |-> events[i].year])),
                             dataSource |-> "DOE Event-Correlated Outage Dataset (EAGLE-I + DOE-417)"]])

\* fetch_all_outage_data() on what download_dataset returned
fetch_all_outage_data(extract_dir) ==
    IF IsNone(extract_dir) THEN Json(SampleOutageData)
    ELSE CHOOSE data \in {OutageData(events, aggregate_to_state_year(events)) :
                             events \in {parse_doe417_events(extract_dir)}} : TRUE

\* main of fetch_doe_outages.py: outage-events.json is written unless
\* fetch_all_outage_data raised
OutageMain ==
    /\ pc = "outage_main"
    /\ \E dl \in {download_dataset(raw_data)} :
         /\ requests' = requests \o dl.requested
         /\ raw_data' = IF IsNone(dl.extract_dir) THEN raw_data
                        ELSE [raw_data EXCEPT !.cache = dl.extract_dir]
         /\ \E data \in {fetch_all_outage_data(dl.extract_dir)} :
              /\ output' = IF data.k = "fail" THEN output
                           ELSE [output EXCEPT !.outage_events = data]
              /\ pc' = IF data.k = "fail" THEN "outage_failed" ELSE "outage_done"
    /\ UNCHANGED <<year, all_points, all_utilities, years_available, call>>

(* the csv rows, directories and answers a run can meet *)

MaxCsvRows == 2

CsvRow(date, cause, customers, duration, state) ==
    [date |-> date, cause |-> cause, customers |-> customers, duration |-> duration,
     state |-> state]

CsvRows ==
    {CsvRow(<<"2", "0", "2", "0", "-", "0", "1", "-", "0", "5">>, <<"S", "e", "v", "e", "r", "e", " ", "S", "t", "o", "r", "m">>, <<"1", "0", "0", "0">>, <<"4", ".", "5">>, <<"C", "A">>),
     CsvRow(<<"2", "0", "2", "0", "-", "0", "2", "-", "1", "1">>, <<"G", "a", "s", " ", "s", "u", "p", "p", "l", "y">>, <<>>, <<>>, <<"T", "e", "x", "a", "s">>),
     CsvRow(<<"2", "0", "2", "1", "-", "0", "3", "-", "0", "1">>, <<>>, <<"a", "b", "c">>, <<"x">>, <<>>),
     CsvRow(<<"2", "0", "2", "1", "-", "0", "7", "-", "1", "9">>, <<"V", "a", "n", "d", "a", "l", "i", "s", "m">>, <<"2", "5", "0", ".", "9">>, <<"2">>, <<" ">>),
     CsvRow(<<"2", "0", "2", "2", "-", "0", "6", "-", "3", "0">>, <<"L", "o", "a", "d", " ", "s", "h", "e", "d", "d", "i", "n", "g">>, <<"5">>, <<"1">>, <<"N", "-", "W", "e", "s", "t">>),
     CsvRow(<<"2", "0", "2", "2", "-", "0", "8", "-", "0", "2">>, <<"T", "r", "a", "n", "s", "f", "o", "r", "m", "e", "r">>, <<"i", "n", "f">>, <<"1">>, <<"C", "A">>),
     CsvRow(<<"2", "0", "1", "3", "-", "1", "2", "-", "3", "1">>, <<"S", "t", "o", "r", "m">>, <<"9">>, <<"1">>, <<"C", "A">>),
     CsvRow(<<>>, <<"S", "t", "o", "r", "m">>, <<"9">>, <<"1">>, <<"C", "A">>)}

ExtractedDirs == {Json(rows) : rows \in SeqUpTo(CsvRows, MaxCsvRows)}

OutageEnvs ==
    {[cache |-> d, web |-> <<Exception, Exception>>] : d \in ExtractedDirs}
    \cup {[cache |-> NoFile, web |-> <<Response(200, d), Exception>>] : d \in ExtractedDirs}
    \cup {[cache |-> NoFile, web |-> <<w, Response(200, d)>>] :
            w \in {Exception, Response(404, Null), Response(200, Unreadable)}, d \in ExtractedDirs}
    \cup {[cache |-> NoFile, web |-> <<w1, w2>>] :
            w1 \in {Exception, Response(404, Null)}, w2 \in {Exception, Response(503, Null)}}

InitOutageMain ==
    /\ pc = "outage_main"
    /\ raw_data \in OutageEnvs
    /\ year = 0
    /\ all_points = <<>>
    /\ all_utilities = <<>>
    /\ years_available = <<>>
    /\ output = NoOutput
    /\ call = Idle
    /\ requests = <<>>

SpecOutageMain == InitOutageMain /\ [][OutageMain]_vars

----------------------------------------------------------------------------
(* fetch_form861.py: aggregate_to_state_level, fetch_year and main *)

\* round(x, 1) and round(x, 2) of a float held in hundredths; NaN stays NaN
Round1(x) == IF IsNum(x) THEN Num(10 * RoundDiv(x.v, 10)) ELSE x
Round2(x) == x

\* the mean of a column over one group as a sum over a count: NaN cells are
\* skipped, a group without a number gives NaN
GroupMeanMutFirst(group, column) ==
    LET nums == SelectSeq([i \in DOMAIN group |-> group[i][column]], IsNum)
    IN IF nums = <<>> THEN [sum |-> 0, count |-> 0] ELSE [sum |-> nums[1].v, count |-> 2]

GroupMean(group, column) ==
    LET nums == SelectSeq([i \in DOMAIN group |-> group[i][column]], IsNum)
    IN [sum |-> SumSeq([i \in DOMAIN nums |-> nums[i].v]), count |-> Len(nums)]

\* .round(1) and .round(2) of a mean
MeanRound1(m) == IF m.count = 0 THEN NaN ELSE Num(10 * RoundDiv(m.sum, 10 * m.count))
MeanRound2(m) == IF m.count = 0 THEN NaN ELSE Num(RoundDiv(m.sum, m.count))

\* one row of state_agg: the means of the group rounded, and its size;
\* total_customers, which fetch_year does not read, is left out
StateAggRow(state, group) ==
    [state          |-> state,
     saidi          |-> MeanRound1(GroupMean(group, "saidi")),
     saifi          |-> MeanRound2(GroupMean(group, "saifi")),
     saidi_with_med |-> MeanRound1(GroupMean(group, "saidi_with_med")),
     saifi_with_med |-> MeanRound2(GroupMean(group, "saifi_with_med")),
     utility_count  |-> Len(group)]

\* an aggregation without groupby: one row of state_agg per row of df
aggregate_to_state_levelMutPerRow(df) ==
    Tuple([i \in DOMAIN df |-> StateAggRow(df[i].state, <<df[i]>>)])

\* aggregate_to_state_level(df) on the rows of extract_utility_reliability:
\* df.groupby('state') gives one group per state present, in sorted order
aggregate_to_state_level(df) ==
    LET states == SortCodes({df[i].state : i \in DOMAIN df})
    IN Tuple([s \in DOMAIN states |->
                StateAggRow(states[s], SelectSeq(df, LAMBDA row : row.state = states[s]))])

\* the URL of download_form861_zip for a year before the current one
Form861Url(y) == [file |-> "archive/zip/f861", year |-> y]

\* download_form861_zip(year): web is what the URL answers; the ZipFile is
\* Json(members), None on an exception, on another status than 200 and on
\* content that is not a zip (Unreadable)
download_form861_zip(web) ==
    IF web.k = "response" /\ web.status = 200 /\ web.content.k = "json" THEN web.content
    ELSE Null

\* A sheet of a workbook is the sequence of its rows and a row the sequence of
\* its cells: Str(text), Num(n), NaN for an empty cell.

\* the column label read_excel makes of the i-th cell of the header row: the
\* text, the number, "Unnamed: <i-1>" for an empty cell
HeaderLabel(cell, i) ==
    IF IsNa(cell) THEN Str(<<"U","n","n","a","m","e","d",":"," ">> \o NatDigits(i - 1)) ELSE cell

\* pd.read_excel(f, sheet_name=0, skiprows=skiprows): the first row left is
\* the header; no row left gives a frame without columns
read_excel(sheet, skiprows) ==
    IF Len(sheet) <= skiprows THEN [columns |-> <<>>, rows |-> <<>>]
    ELSE [columns |-> [i \in DOMAIN sheet[skiprows + 1] |->
                          HeaderLabel(sheet[skiprows + 1][i], i)],
          rows    |-> SubSeq(sheet, skiprows + 2, Len(sheet))]

\* {c.lower(): c for c in df.columns} raises for a label that is not a str
ColsLowerRaises(df) == \E i \in DOMAIN df.columns : df.columns[i].k # "str"

\* has_state and has_saidi
LooksRight(df) ==
    /\ \E i \in DOMAIN df.columns :
          StrContains(<<"s", "t", "a", "t", "e">>, StrLower(df.columns[i].v))
    /\ \E i \in DOMAIN df.columns :
          StrContains(<<"s", "a", "i", "d", "i">>, StrLower(df.columns[i].v))

\* the body of the loop returns df: nothing raised and both columns are there
OffsetAccepted(df) == ~ColsLowerRaises(df) /\ LooksRight(df)

\* for skiprows in [0, 1, 2]
SKIPROWS == <<0, 1, 2>>

\* the frame with its labels as plain text, as find_column reads them
Frame(df) == [columns |-> [i \in DOMAIN df.columns |-> df.columns[i].v], rows |-> df.rows]

\* parse_reliability_data(zf, filename, year): the workbook is NoFile when
\* find_reliability_file finds no name, Unreadable when zf.open or every
\* read_excel raises; else the frame of the first offset of SKIPROWS that is
\* accepted, None when there is none
parse_reliability_data(workbook) ==
    IF workbook.k # "json" THEN Null
    ELSE LET ok == {n \in DOMAIN SKIPROWS : OffsetAccepted(read_excel(workbook.v, SKIPROWS[n]))}
         IN IF ok = {} THEN Null
            ELSE Json(Frame(read_excel(workbook.v,
                                       SKIPROWS[CHOOSE n \in ok : \A m \in ok : n <= m])))

\* a value that is written only when it is not NaN
IfNotNa(x) == IF IsNa(x) THEN Missing ELSE x

\* state_records of fetch_year
StateRecords(state_df, y) ==
    [i \in DOMAIN state_df |->
        [state |-> state_df[i].state, saidi |-> state_df[i].saidi,
         saifi |-> IF IsNa(state_df[i].saifi) THEN Null ELSE state_df[i].saifi,
         year |-> y,
         saidi_with_med |-> IfNotNa(state_df[i].saidi_with_med),
         saifi_with_med |-> IfNotNa(state_df[i].saifi_with_med)]]

\* utility_records of fetch_year for a zip without a Utility_Data file: the
\* rto_ flags are all False and nerc_region is ''
UtilityRecords(utility_df, y) ==
    [i \in DOMAIN utility_df |->
        [utility_id |-> utility_df[i].utility_id, utility_name |-> utility_df[i].utility_name,
         state |-> utility_df[i].state, ownership |-> utility_df[i].ownership,
         saidi |-> Round1(utility_df[i].saidi),
         saifi |-> IF IsNa(utility_df[i].saifi) THEN Null ELSE Round2(utility_df[i].saifi),
         customers |-> IF IsNa(utility_df[i].customers) THEN Null
                       ELSE IntTrunc(utility_df[i].customers),
         nerc_region |-> <<>>, year |-> y,
         saidi_with_med |-> IfNotNa(Round1(utility_df[i].saidi_with_med)),
         saifi_with_med |-> IfNotNa(Round2(utility_df[i].saifi_with_med))]]

\* a fetch_year that reports one empty state record when no utility row is left
YearRecordsMutPlaceholder(utility_df, y) ==
    IF IsNone(utility_df) \/ utility_df.v = <<>>
    THEN Json([state_records |-> <<[state |-> <<>>, year |-> y]>>, utility_records |-> <<>>])
    ELSE Json([state_records   |-> StateRecords(aggregate_to_state_level(utility_df.v), y),
               utility_records |-> UtilityRecords(utility_df.v, y)])

\* lines 407-486 of fetch_year: (None, None) when extract_utility_reliability
\* gave None or no row
YearRecords(utility_df, y) ==
    IF IsNone(utility_df) \/ utility_df.v = <<>> THEN Null
    ELSE Json([state_records   |-> StateRecords(aggregate_to_state_level(utility_df.v), y),
               utility_records |-> UtilityRecords(utility_df.v, y)])

\* lines 401-410 of fetch_year, on the workbook of the reliability file
ParsedYear(raw_df, y) ==
    IF IsNone(raw_df) THEN Null
    ELSE CHOOSE r \in {YearRecords(utility_df, y) :
                         utility_df \in {extract_utility_reliability(raw_df.v)}} : TRUE

\* lines 390-404 of fetch_year, on what download_form861_zip returned
FetchedYear(zf, y) ==
    IF IsNone(zf) THEN Null
    ELSE IF zf.v.reliability = NoFile THEN Null
    ELSE CHOOSE r \in {ParsedYear(raw_df, y) :
                         raw_df \in {parse_reliability_data(zf.v.reliability)}} : TRUE

\* fetch_year(year): None for (None, None), else Json of the two record lists
fetch_year(y, web) ==
    CHOOSE r \in {FetchedYear(zf, y) : zf \in {download_form861_zip(web)}} : TRUE

\* one iteration of the loop of main: `continue` when fetch_year gave no state
\* record, else reliability_<year>.json and utilities_<year>.json are saved;
\* failed_years and the counters are only printed
Form861Year ==
    /\ pc = "form861_loop" /\ year <= LastYear
    /\ \E r \in {fetch_year(year, raw_data.form861[year])} :
         raw_data' = IF IsNone(r) THEN raw_data
                     ELSE [raw_data EXCEPT !.reliability[year] = Json(r.v.state_records),
                                           !.utilities[year] =
                                               IF r.v.utility_records # <<>>
                                               THEN Json(r.v.utility_records) ELSE @]
    /\ requests' = Append(requests, Form861Url(year))
    /\ year' = year + 1
    /\ UNCHANGED <<pc, all_points, all_utilities, years_available, output, call>>

\* after the loop: the summary
Form861Done ==
    /\ pc = "form861_loop" /\ year > LastYear
    /\ pc' = "form861_done"
    /\ UNCHANGED <<raw_data, year, all_points, all_utilities, years_available, output, call, requests>>

(* the zips a run can be answered *)

ReliabilityLayout == CHOOSE l \in LAYOUTS : Len(l) = 5
NoStateLayout     == CHOOSE l \in LAYOUTS : Len(l) = 2
NoIdLayout        == << <<<<"S","t","a","t","e">>, "state">>, <<<<"S","A","I","D","I">>, "saidi">> >>

\* a row above the header: a title in the first of n cells
TitleRow(n) ==
    [i \in 1..n |-> IF i = 1 THEN Str(<<"T","a","b","l","e"," ","o","f"," ","S","A","I","D","I">>)
                    ELSE NaN]

\* the rows of the workbook that holds a sheet under leading rows
RawSheet(lead, sheet) ==
    lead \o <<[i \in DOMAIN sheet.columns |-> Str(sheet.columns[i])]>> \o sheet.rows

Form861Sheets ==
    {Sheet(ReliabilityLayout, <<SheetRow(Num(10100), Str(CA), Num(15055), Num(120)),
                                SheetRow(Num(10250), Str(TX), Num(20025), NaN)>>),
     Sheet(ReliabilityLayout, <<SheetRow(Num(10100), Str(CA), Num(15055), Num(120)),
                                SheetRow(Num(10250), Str(CA), Num(10000), Num(125))>>),
     Sheet(ReliabilityLayout, <<SheetRow(Num(10100), Str(<<"X", "X">>), Num(15055), Num(120))>>),
     Sheet(NoStateLayout, <<SheetRow(Num(10100), Str(CA), Num(15055), Num(120))>>),
     Sheet(NoIdLayout, <<SheetRow(Num(10100), Str(CA), Num(15055), Num(120))>>)}

Form861Answers ==
    {Exception, Response(404, Null), Response(500, Null), Response(200, Unreadable),
     Response(200, Json([reliability |-> NoFile])),
     Response(200, Json([reliability |-> Unreadable]))}
    \cup {Response(200, Json([reliability |-> Json(RawSheet(lead, sheet))])) :
             lead \in {<<>>}, sheet \in Form861Sheets}
    \cup {Response(200, Json([reliability |-> Json(RawSheet(<<TitleRow(5)>>, sheet))])) :
             sheet \in {Sheet(ReliabilityLayout, <<SheetRow(Num(10100), Str(CA), Num(15055), Num(120))>>)}}

InitForm861 ==
    /\ pc = "form861_loop"
    /\ raw_data \in [form861 : [Years -> Form861Answers],
                     reliability : {[y \in Years |-> NoFile]},
                     utilities : {[y \in Years |-> NoFile]}]
    /\ year = FIRST_YEAR
    /\ all_points = <<>>
    /\ all_utilities = <<>>
    /\ years_available = <<>>
    /\ output = NoOutput
    /\ call = Idle
    /\ requests = <<>>

NextForm861 == Form861Year \/ Form861Done

SpecForm861 == InitForm861 /\ [][NextForm861]_vars

(* calls of parse_reliability_data on the sheets of a workbook *)

MaxSheetRows == 4

\* rows of three cells: a title, headers (complete, with a year as a number
\* in the third cell, without SAIDI), utility rows
ParseRowPool ==
    {<<Str(<<"R","e","l","i","a","b","i","l","i","t","y">>), NaN, NaN>>,
     <<Str(<<"S","t","a","t","e">>), Str(<<"S","A","I","D","I">>), Str(<<"U","t","i","l","i","t","y"," ","N","u","m","b","e","r">>)>>,
     <<Str(<<"S","t","a","t","e">>), Str(<<"S","A","I","D","I">>), Num(201300)>>,
     <<Str(<<"S","t","a","t","e">>), Str(<<"N","a","m","e">>), NaN>>,
     <<Str(CA), Str(<<"1","5","0",".","5">>), Str(<<"1","0","1">>)>>,
     <<Str(CA), Num(15050), Num(10100)>>}

InitParse ==
    InitCall("parse_reliability_data",
             {Unreadable} \cup {Json(sheet) : sheet \in SeqUpTo(ParseRowPool, MaxSheetRows)})

CallParse ==
    /\ pc = "call" /\ call.fn = "parse_reliability_data"
    /\ call' = [call EXCEPT !.ret = parse_reliability_data(call.args)]
    /\ pc' = "return"
    /\ UNCHANGED <<raw_data, year, all_points, all_utilities, years_available, output, requests>>

SpecParse == InitParse /\ [][CallParse]_vars

(* calls of aggregate_to_state_level on the rows extracted from a sheet *)

InitStateLevel ==
    InitCall("aggregate_to_state_level",
             {extract_utility_reliability(Sheet(ReliabilityLayout, rs)).v :
                rs \in SeqUpTo(SheetRows, MaxRows)})

CallStateLevel ==
    /\ pc = "call" /\ call.fn = "aggregate_to_state_level"
    /\ call' = [call EXCEPT !.ret = aggregate_to_state_level(call.args)]
    /\ pc' = "return"
    /\ UNCHANGED <<raw_data, year, all_points, all_utilities, years_available, output, requests>>

\* calls of either aggregation
SpecAggregate ==
    (InitOutage \/ InitStateLevel) /\ [][CallAggregate \/ CallStateLevel]_vars

----------------------------------------------------------------------------
(* fetch_eia_data.py and fetch_rates.py: the API key and main *)

\* os.getenv("EIA_API_KEY") on the process environment as load_dotenv() left
\* it at import: None when the variable is unset
getenv(environ) == Get(environ)

\* a check for None only: an empty key is returned
get_api_keyMutEmpty(environ) ==
    IF IsNone(Get(environ)) THEN Fail ELSE Get(environ)

\* `if not api_key: raise ValueError(...)`, else the key
get_api_key(environ) ==
    IF ~Truthy(getenv(environ)) THEN Fail ELSE getenv(environ)

\* the keys of FUEL_TYPES, in order
FuelIds == <<"WND", "SUN", "ALL">>

\* the request of fetch_all_generation_by_fuel: one URL, the fuel type in
\* its parameters
EiaUrl(fuel_type) == [url |-> "electric-power-operational-data", fueltypeid |-> fuel_type]

\* the request of fetch_retail_prices: one URL, sector and year in its parameters
RatesUrl(sector, y) == [url |-> "retail-sales", sectorid |-> sector, start |-> y]

\* a response body: data["response"]["data"], or a body without these keys
ApiBody(records) == Json(Json(records))
NoDataBody       == Json(Missing)

\* the records of a response that reach by_year: 2-letter location, generation
\* not None and accepted by float()
GenKept(record) ==
    /\ Len(record.location) = 2
    /\ ~IsNone(Get(record.generation))
    /\ Float(Get(record.generation)).k # "fail"

\* the kept records of all years, or Fail: requests.get and response.json()
\* are called outside any try
fetch_all_generation_by_fuel(answer) ==
    IF answer.k = "fail" THEN Fail
    ELSE IF answer.status # 200 THEN Json(<<>>)
    ELSE IF answer.content.k # "json" THEN Fail
    ELSE IF answer.content.v.k = "missing" THEN Json(<<>>)
    ELSE Json(SelectSeq(answer.content.v.v, GenKept))

\* by_year[year] as a list: a location stands where it first occurred and
\* holds the value of its last record (by_year[year][location] = gen_val)
YearStateData(kept, y) ==
    LET own   == SelectSeq(kept, LAMBDA r : r.period = y)
        first == SelectSeq([i \in DOMAIN own |-> i],
                           LAMBDA i : \A j \in 1..(i - 1) : own[j].location # own[i].location)
        last(i) == CHOOSE j \in DOMAIN own :
                      /\ own[j].location = own[i].location
                      /\ \A h \in (j + 1)..Len(own) : own[h].location # own[i].location
    IN [n \in DOMAIN first |->
           GenRec(own[first[n]].location, Float(Get(own[last(first[n])].generation)))]

\* generation_<year>.json: every fuel type of FUEL_TYPES with its list
GenerationFile(by_fuel, y) ==
    Json([f \in Range(FuelIds) |->
            YearStateData(by_fuel[CHOOSE i \in DOMAIN FuelIds : FuelIds[i] = f].v, y)])

\* fetch_all_generation_data: one call per fuel type, then one file per year;
\* an exception in a call ends the run before any file is written
GenerationFetched(by_fuel) ==
    LET crash == {i \in DOMAIN FuelIds : by_fuel[i].k = "fail"}
        n     == IF crash = {} THEN Len(FuelIds)
                 ELSE CHOOSE i \in crash : \A j \in crash : i <= j
    IN [crashed   |-> crash # {},
        requested |-> [i \in 1..n |-> EiaUrl(FuelIds[i])],
        files     |-> IF crash # {} THEN <<>>
                      ELSE [y \in Years |-> GenerationFile(by_fuel, y)]]

fetch_all_generation_data(web) ==
    CHOOSE r \in {GenerationFetched(by_fuel) :
                    by_fuel \in {[i \in DOMAIN FuelIds |->
                                    fetch_all_generation_by_fuel(web[FuelIds[i]])]}} : TRUE

\* the content of a reliability file of estimates written by this script
Estimated == [k |-> "estimated", v |-> 0]

\* saidi_values = [r.get("saidi", 0) for r in sample_data]
SampleSaidi(sample_data) ==
    [i \in DOMAIN sample_data |->
        IF sample_data[i].saidi.k = "missing" THEN Num(0) ELSE sample_data[i].saidi]

\* variance > limit for avg = sum / len and variance = sum((v - avg) ** 2) / len,
\* that is n * sum(v^2) - sum(v)^2 > limit * n^2; v in tenths of a minute
VarianceAbove(values, limit) ==
    LET n      == Len(values)
        tenths == [i \in DOMAIN values |-> values[i].v \div 10]
    IN n * SumSeq([i \in DOMAIN tenths |-> tenths[i] * tenths[i]])
          - SumSeq(tenths) * SumSeq(tenths) > limit * n * n * 100

\* a test that takes a sample of 10 values as well
Form861FoundMutTen(sample_file) ==
    /\ sample_file.k = "json"
    /\ Len(sample_file.v) >= 10
    /\ \A i \in DOMAIN sample_file.v : sample_file.v[i].saidi.k \in {"num", "missing"}
    /\ VarianceAbove(SampleSaidi(sample_file.v), 3000)

\* the try block on sample_file reaches its return: the file loads, holds more
\* than 10 records and the variance of their saidi exceeds 3000; a file that
\* does not load and a saidi that is not a number raise, and the exception is
\* passed over
Form861Found(sample_file) ==
    /\ sample_file.k = "json"
    /\ Len(sample_file.v) > 10
    /\ \A i \in DOMAIN sample_file.v : sample_file.v[i].saidi.k \in {"num", "missing"}
    /\ VarianceAbove(SampleSaidi(sample_file.v), 3000)

\* main of fetch_eia_data.py up to the key: get_api_key raises, or the key is printed
EiaGetKey ==
    /\ pc = "eia_main"
    /\ pc' = IF get_api_key(raw_data.environ).k = "fail" THEN "eia_failed" ELSE "eia_generation"
    /\ UNCHANGED <<raw_data, year, all_points, all_utilities, years_available, output, call, requests>>

EiaGeneration ==
    /\ pc = "eia_generation"
    /\ \E r \in {fetch_all_generation_data(raw_data.eia)} :
         /\ requests' = requests \o r.requested
         /\ pc' = IF r.crashed THEN "eia_crashed" ELSE "eia_reliability"
         /\ raw_data' = IF r.crashed THEN raw_data
                        ELSE [raw_data EXCEPT !.generation = r.files]
    /\ UNCHANGED <<year, all_points, all_utilities, years_available, output, call>>

\* fetch_reliability_data_via_api: existing_files[0] is any of the files the
\* glob finds; when it passes the test the function returns, else every year
\* gets a file of estimates
EiaReliability ==
    /\ pc = "eia_reliability"
    /\ LET existing_files == {y \in Years : raw_data.reliability[y].k # "nofile"}
       IN \/ /\ \E sample_file \in existing_files : Form861Found(raw_data.reliability[sample_file])
             /\ raw_data' = raw_data
          \/ /\ \/ existing_files = {}
                \/ \E sample_file \in existing_files :
                      ~Form861Found(raw_data.reliability[sample_file])
             /\ raw_data' = [raw_data EXCEPT !.reliability = [y \in Years |-> Estimated]]
    /\ pc' = "eia_done"
    /\ UNCHANGED <<year, all_points, all_utilities, years_available, output, call, requests>>

\* [] for an exception, a status other than 200 and a body without data
fetch_retail_prices(answer) ==
    IF answer.k = "fail" THEN <<>>
    ELSE IF answer.status # 200 THEN <<>>
    ELSE IF answer.content.v.k = "missing" THEN <<>>
    ELSE answer.content.v.v

\* the processed records of each sector, in the order of SECTORS
SectorData(web, y) ==
    [i \in DOMAIN SECTORS |->
        process_rate_data(fetch_retail_prices(web[SECTORS[i][1]]), SECTORS[i][1], y)]

\* year_data of fetch_all_rates: the processed records of the four sectors
RatesYearData(web, y) ==
    CHOOSE r \in {d[1] \o d[2] \o d[3] \o d[4] : d \in {SectorData(web, y)}} : TRUE

\* main of fetch_rates.py up to the key
RatesGetKey ==
    /\ pc = "rates_main"
    /\ pc' = IF get_api_key(raw_data.environ).k = "fail" THEN "rates_failed" ELSE "rates_loop"
    /\ UNCHANGED <<raw_data, year, all_points, all_utilities, years_available, output, call, requests>>

\* one year of fetch_all_rates; all_points holds all_data in insertion order
RatesYear ==
    /\ pc = "rates_loop" /\ year <= LastYear
    /\ \E year_data \in {RatesYearData(raw_data.retail[year], year)} :
         all_points' = IF year_data # <<>>
                       THEN Append(all_points, [year |-> year, records |-> year_data])
                       ELSE all_points
    /\ requests' = requests \o [i \in DOMAIN SECTORS |-> RatesUrl(SECTORS[i][1], year)]
    /\ year' = year + 1
    /\ UNCHANGED <<pc, raw_data, all_utilities, years_available, output, call>>

\* the save loop of main: rates_<year>.json for every year of all_data
RatesSave ==
    /\ pc = "rates_loop" /\ year > LastYear
    /\ raw_data' = [raw_data EXCEPT !.rates =
                      [y \in Years |->
                          IF \E i \in DOMAIN all_points : all_points[i].year = y
                          THEN Json(all_points[CHOOSE i \in DOMAIN all_points :
                                                   all_points[i].year = y].records)
                          ELSE @[y]]]
    /\ pc' = "rates_done"
    /\ UNCHANGED <<year, all_points, all_utilities, years_available, output, call, requests>>

(* the environments and answers a run can meet *)

API_KEY == <<"k", "e", "y">>

Environs == {Missing, Str(<<>>), Str(<<" ">>), Str(API_KEY)}

ApiGen(period, location, g) == [period |-> period, location |-> location, generation |-> g]

EiaAnswers ==
    {Exception, Response(500, Null), Response(200, Unreadable), Response(200, NoDataBody),
     Response(200, ApiBody(<<ApiGen(FIRST_YEAR, CA, Num(10000)),
                             ApiGen(FIRST_YEAR, CA, Str(<<"7">>)),
                             ApiGen(FIRST_YEAR, US \o <<"A">>, Num(2000)),
                             ApiGen(LastYear, TX, Null),
                             ApiGen(LastYear, TX, Str(<<"n","/","a">>)),
                             ApiGen(FIRST_YEAR - 1, TX, Num(3000))>>))}

EiaWebs ==
    {[f \in Range(FuelIds) |-> a] : a \in EiaAnswers}
    \cup {[f \in Range(FuelIds) |-> IF f = g THEN a ELSE Response(200, NoDataBody)] :
             g \in Range(FuelIds), a \in EiaAnswers}

\* a reliability file with the given saidi values
SaidiFile(saidis) == Json([i \in DOMAIN saidis |-> [state |-> CA, saidi |-> saidis[i]]])

\* eleven saidi values far apart, ten of them, eleven close together, eleven
\* far apart one of which is null
SaidiApart == [i \in 1..11 |-> IF i % 2 = 0 THEN Num(25000) ELSE Num(5050)]
SaidiClose == [i \in 1..11 |-> IF i % 2 = 0 THEN Num(12000) ELSE Num(10010)]

ReliabilityFiles ==
    {NoFile, Unreadable, SaidiFile(<<>>), SaidiFile(SaidiApart), SaidiFile(SubSeq(SaidiApart, 1, 10)),
     SaidiFile(SaidiClose), SaidiFile([SaidiApart EXCEPT ![3] = Null])}

\* the reliability directory before the run: the same kind of file for every
\* year, or a file far apart for one year and another kind for the others
ReliabilityDirs ==
    {[y \in Years |-> f] : f \in ReliabilityFiles}
    \cup {[y \in Years |-> IF y = y0 THEN SaidiFile(SaidiApart) ELSE f] :
             y0 \in Years, f \in {NoFile, Unreadable, SaidiFile(SaidiClose)}}

InitEia ==
    /\ pc = "eia_main"
    /\ raw_data \in [environ : Environs, eia : EiaWebs,
                     generation : {[y \in Years |-> NoFile]},
                     reliability : ReliabilityDirs]
    /\ year = FIRST_YEAR
    /\ all_points = <<>>
    /\ all_utilities = <<>>
    /\ years_available = <<>>
    /\ output = NoOutput
    /\ call = Idle
    /\ requests = <<>>

SectorIds == {SECTORS[i][1] : i \in DOMAIN SECTORS}

RetailAnswers ==
    {Exception, Response(404, Null), Response(200, NoDataBody),
     Response(200, ApiBody(<<ApiRate(CA, Num(1250)), ApiRate(US, Num(1250)),
                             ApiRate(TX, Null)>>))}

RetailWebs ==
    {[s \in SectorIds |-> a] : a \in RetailAnswers}
    \cup {[s \in SectorIds |-> IF s = "RES" THEN Exception ELSE a] : a \in RetailAnswers}

InitRetail ==
    /\ pc = "rates_main"
    /\ raw_data \in [environ : Environs, retail : [Years -> RetailWebs],
                     rates : {[y \in Years |-> NoFile]}]
    /\ year = FIRST_YEAR
    /\ all_points = <<>>
    /\ all_utilities = <<>>
    /\ years_available = <<>>
    /\ output = NoOutput
    /\ call = Idle
    /\ requests = <<>>

NextApi == EiaGetKey \/ EiaGeneration \/ EiaReliability \/ RatesGetKey \/ RatesYear \/ RatesSave

SpecApi == (InitEia \/ InitRetail) /\ [][NextApi]_vars

----------------------------------------------------------------------------
(* build_chart_data.py: create_sample_data and the __main__ block *)

\* a value computed from draws of random: present, not modelled
Random == [k |-> "random", v |-> 0]

\* the (year, state) pairs of the two loops of create_sample_data, in order
SamplePairs ==
    [k \in 1..(Len(SampleYears) * Len(STATE_INFO)) |->
        [year |-> SampleYears[((k - 1) \div Len(STATE_INFO)) + 1],
         info |-> STATE_INFO[((k - 1) % Len(STATE_INFO)) + 1]]]

\* the dict literal appended to sample_points
SamplePoint(y, info) ==
    [state            |-> info[2],
     stateCode        |-> info[1],
     year             |-> y,
     saidi            |-> Random,
     saifi            |-> Random,
     vrePenetration   |-> Random,
     windPenetration  |-> Random,
     solarPenetration |-> Random,
     totalGeneration  |-> Random,
     customerCount    |-> Random,
     region           |-> info[3]]

\* the dict written to saidi-vre.json; lastUpdated and dataSource are not modelled
create_sample_data ==
    [points   |-> Tuple([k \in DOMAIN SamplePairs |->
                           SamplePoint(SamplePairs[k].year, SamplePairs[k].info)]),
     metadata |-> [yearsAvailable |-> SampleYears,
                   states  |-> SortCodes(StateCodes),
                   regions |-> REGIONS_SORTED]]

\* gen_dir.exists(), rel_dir.exists(): a directory is there with its files
GenDirExists == \E y \in Years : raw_data[y].generation.k # "nofile"
RelDirExists == \E y \in Years : raw_data[y].reliability.k # "nofile"

\* "--sample" in sys.argv, or no flag and a raw data directory missing:
\* create_sample_data writes saidi-vre.json
MainSample ==
    /\ pc = "main"
    /\ \/ "--sample" \in call.args
       \/ "--utilities" \notin call.args /\ (~GenDirExists \/ ~RelDirExists)
    /\ output' = [output EXCEPT !.saidi_vre = Json(create_sample_data)]
    /\ pc' = "sample_done"
    /\ UNCHANGED <<raw_data, year, all_points, all_utilities, years_available, call, requests>>

\* "--utilities" without "--sample": build_utility_json only
MainUtilities ==
    /\ pc = "main"
    /\ "--sample" \notin call.args /\ "--utilities" \in call.args
    /\ pc' = "utility_loop"
    /\ UNCHANGED <<raw_data, year, all_points, all_utilities, years_available, output, call, requests>>

\* no flag and both directories: build_chart_json, then the utilities
MainBuild ==
    /\ pc = "main"
    /\ "--sample" \notin call.args /\ "--utilities" \notin call.args
    /\ GenDirExists /\ RelDirExists
    /\ pc' = "chart_loop"
    /\ UNCHANGED <<raw_data, year, all_points, all_utilities, years_available, output, call, requests>>

\* sys.argv[1:]
Argvs == {{}, {"--sample"}, {"--utilities"}, {"--sample", "--utilities"}}

InitMain ==
    /\ pc = "main"
    /\ raw_data \in YearsFileSystems
    /\ year = FIRST_YEAR
    /\ all_points = <<>>
    /\ all_utilities = <<>>
    /\ years_available = <<>>
    /\ output = NoOutput
    /\ call \in {Entry("__main__", argv) : argv \in Argvs}
    /\ requests = <<>>

NextMain == MainSample \/ MainUtilities \/ MainBuild

----------------------------------------------------------------------------
(* One run of any of the scripts *)

InitScripts ==
    \/ InitBuild \/ InitMain \/ InitWholesale \/ InitOutageMain \/ InitForm861
    \/ InitEia \/ InitRetail

NextScripts ==
    NextBuild \/ NextMain \/ NextWholesale \/ OutageMain \/ NextForm861 \/ NextApi

SpecScripts == InitScripts /\ [][NextScripts]_vars

----------------------------------------------------------------------------
(* Properties of build_chart_json and build_utility_json (SpecBuild) *)

\* the years whose iteration of the build_chart_json loop is over
ChartYearsDone == IF pc = "chart_loop" THEN {y \in Years : y < year} ELSE Years

PointsOf(y, c) == {i \in DOMAIN all_points : all_points[i].year = y /\ all_points[i].stateCode = c}

FileRecs(file) == IF file.k = "json" THEN file.v ELSE <<>>

\* the (state, year) key has a payload in the generation dataset
InGeneration(y, c) ==
    /\ raw_data[y].generation.k = "json"
    /\ \E f \in DOMAIN raw_data[y].generation.v : \E i \in DOMAIN raw_data[y].generation.v[f] :
          /\ raw_data[y].generation.v[f][i].location = c
          /\ Float(Get(raw_data[y].generation.v[f][i].generation)).k = "num"

\* ... a range-valid record in the reliability dataset
InReliability(y, c) ==
    \E i \in DOMAIN FileRecs(raw_data[y].reliability) :
        LET r == FileRecs(raw_data[y].reliability)[i]
        IN r.state = c /\ r.saidi.k = "num" /\ 0 < r.saidi.v /\ r.saidi.v < SAIDI_MAX

\* ... a record in the rates dataset
InRates(y, c) ==
    \E i \in DOMAIN FileRecs(raw_data[y].rates) : FileRecs(raw_data[y].rates)[i].state = c

RateFields == {"rateResidential", "rateCommercial", "rateIndustrial", "rateAll"}

EndToEndCase(y) ==
    /\ \E i \in DOMAIN FileRecs(raw_data[y].reliability) :
          LET r == FileRecs(raw_data[y].reliability)[i]
          IN r.state = CA /\ r.saidi = Num(15050)
    /\ \E i \in DOMAIN FileRecs(raw_data[y].reliability) :
          LET r == FileRecs(raw_data[y].reliability)[i]
          IN r.state = TX /\ r.saidi = Num(999999900)
    /\ InGeneration(y, CA) /\ InGeneration(y, TX)

\* C3 as claimed: in the end-to-end case the points of the year include a CA
\* point and no TX point, whatever the other inputs are.
C3_TXExcluded ==
    \A y \in ChartYearsDone :
        EndToEndCase(y) => PointsOf(y, CA) # {} /\ PointsOf(y, TX) = {}

\* C3 as amended: in the end-to-end case the points of the year include a CA
\* point; a TX point is emitted if and only if TX has rate data or another,
\* in-range TX reliability record, and no TX point carries the out-of-range
\* value: its saidi is null unless an in-range TX record exists.
C3_TXOutOfRangeDropped ==
    \A y \in ChartYearsDone :
        EndToEndCase(y) =>
            /\ PointsOf(y, CA) # {}
            /\ PointsOf(y, TX) # {} <=> (InRates(y, TX) \/ InReliability(y, TX))
            /\ \A i \in PointsOf(y, TX) :
                  /\ all_points[i].saidi # Num(999999900)
                  /\ ~InReliability(y, TX) => IsNone(all_points[i].saidi)

\* C3 witness: the end-to-end year is done, TX has rate data, and a TX point
\* with a null saidi stands beside the CA point
C3_Witness ==
    \E y \in ChartYearsDone :
        /\ EndToEndCase(y) /\ InRates(y, TX) /\ ~InReliability(y, TX)
        /\ PointsOf(y, CA) # {}
        /\ \E i \in PointsOf(y, TX) : IsNone(all_points[i].saidi)

POINT_FIELDS == {"state", "stateCode", "year", "saidi", "saifi", "vrePenetration",
                 "windPenetration", "solarPenetration", "totalGeneration", "customerCount",
                 "region", "rateResidential", "rateCommercial", "rateIndustrial", "rateAll",
                 "generationWind", "generationSolar", "generationGas", "generationCoal",
                 "generationNuclear", "generationHydro", "generationOther"}

ValueFields == POINT_FIELDS \ {"state", "stateCode", "year", "region"}

RateSectorOf(f) ==
    CASE f = "rateResidential" -> "RES" [] f = "rateCommercial" -> "COM"
      [] f = "rateIndustrial" -> "IND" [] f = "rateAll" -> "ALL"

\* C8: schema stability. Every point carries exactly the fixed field names;
\* no field is omitted, and a field whose dataset has no record for the
\* (state, year) key is null.
C8_SchemaStable ==
    \A i \in DOMAIN all_points :
        LET p == all_points[i]
        IN /\ DOMAIN p = POINT_FIELDS
           /\ \A f \in ValueFields : p[f] # Missing
           /\ \A f \in RateFields :
                 (~\E j \in DOMAIN FileRecs(raw_data[p.year].rates) :
                      /\ FileRecs(raw_data[p.year].rates)[j].state = p.stateCode
                      /\ FileRecs(raw_data[p.year].rates)[j].sector = RateSectorOf(f))
                 => IsNone(p[f])
           /\ ~(\E j \in DOMAIN FileRecs(raw_data[p.year].reliability) :
                      FileRecs(raw_data[p.year].reliability)[j].state = p.stateCode)
                 => IsNone(p.saidi) /\ IsNone(p.saifi)

\* C8 witness: a point of a state with residential rates only and no
\* reliability record
C8_Witness ==
    \E i \in DOMAIN all_points :
        /\ ~IsNone(all_points[i].rateResidential)
        /\ IsNone(all_points[i].rateAll)
        /\ IsNone(all_points[i].saidi)
        /\ ~InReliability(all_points[i].year, all_points[i].stateCode)

StrictlyAscending(s) == \A i \in DOMAIN s : \A j \in DOMAIN s : i < j => s[i] < s[j]

\* C10: yearsAvailable of both output files is strictly ascending and holds
\* exactly the years of the emitted points / utilities.
C10_YearsAvailable ==
    /\ output.saidi_vre.k = "json" =>
          LET o == output.saidi_vre.v
          IN /\ StrictlyAscending(o.metadata.yearsAvailable)
             /\ Range(o.metadata.yearsAvailable) = {o.points[i].year : i \in DOMAIN o.points}
    /\ output.utilities.k = "json" =>
          LET o == output.utilities.v
          IN /\ StrictlyAscending(o.metadata.yearsAvailable)
             /\ Range(o.metadata.yearsAvailable) = {o.utilities[i].year : i \in DOMAIN o.utilities}

\* C10 witness: both files written, the utilities file covering more than one
\* year, the chart file fewer years than the loop ran over
C10_Witness ==
    /\ output.saidi_vre.k = "json" /\ output.utilities.k = "json"
    /\ Len(output.utilities.v.metadata.yearsAvailable) > 1
    /\ Len(output.saidi_vre.v.metadata.yearsAvailable) < NumYears

(* Properties of load_reliability_data (SpecReliability) *)

InRange(saidi) == saidi.k = "num" /\ 0 < saidi.v /\ saidi.v < SAIDI_MAX

\* C2: the SAIDI range filter. The records returned are exactly the input
\* records whose saidi is a number with 0 < saidi < 10000, in input order.
C2_SaidiFilter ==
    (Returned("load_reliability_data") /\ call.args.k = "json") =>
        LET in   == call.args.v
            out  == call.ret.v
            keep == {i \in DOMAIN in : InRange(in[i].saidi)}
            nth(j) == CHOOSE i \in keep : Cardinality({m \in keep : m <= i}) = j
        IN /\ call.ret.k = "json"
           /\ Len(out) = Cardinality(keep)
           /\ \A j \in DOMAIN out : out[j] = in[nth(j)]

\* C2 witness: a file whose first record sits on the upper limit and is
\* dropped, and whose second record is retained
C2_Witness ==
    /\ Returned("load_reliability_data") /\ call.args.k = "json"
    /\ Len(call.args.v) = 2 /\ Len(call.ret.v) = 1
    /\ call.args.v[1].saidi = Num(SAIDI_MAX)
    /\ call.ret.v[1] = call.args.v[2]

(* Properties of process_generation_data (SpecGeneration) *)

\* the input holds a usable total (ALL) record of the state
HasTotalRecord(gen_data, c) ==
    /\ "ALL" \in DOMAIN gen_data
    /\ \E i \in DOMAIN gen_data["ALL"] :
          /\ gen_data["ALL"][i].location = c
          /\ Float(Get(gen_data["ALL"][i].generation)).k = "num"

\* v is x / total * 100 rounded to 2 decimals: the nearest hundredth
IsPctRounded(v, x, total) ==
    /\ v.k = "num"
    /\ 2 * (v.v * total - x * 10000) <= total
    /\ 2 * (x * 10000 - v.v * total) <= total

\* C4: for every state of the result, vrePenetration is (wind + solar) / total
\* * 100 rounded to 2 decimals when total > 0, and 0 when total <= 0 or the
\* state has no total (ALL) record.
C4_VrePenetration ==
    Returned("process_generation_data") =>
        \A i \in DOMAIN call.ret :
            LET d == call.ret[i]
            IN /\ d.total.v > 0 => IsPctRounded(d.vrePenetration, d.wind.v + d.solar.v, d.total.v)
               /\ d.total.v <= 0 => d.vrePenetration = Num(0)
               /\ ~HasTotalRecord(call.args, d.location) => d.vrePenetration = Num(0)

\* C4 witness: wind 30, solar 20, total 100 gives 50.0
C4_Witness ==
    /\ Returned("process_generation_data")
    /\ \E i \in DOMAIN call.ret :
          /\ call.ret[i].wind = Num(3000) /\ call.ret[i].solar = Num(2000)
          /\ call.ret[i].total = Num(10000)
          /\ call.ret[i].vrePenetration = Num(5000)

(* Properties of process_rate_data (SpecRates) *)

\* the price coerces to a number p with 0 < p <= 100
PriceAccepted(price) ==
    LET p == Float(Get(price)) IN p.k = "num" /\ 0 < p.v /\ p.v <= PRICE_MAX

\* C6: the retail price range filter. An input record yields an output record
\* if and only if its stateid is a valid state and its price coerces to a
\* number p with 0 < p <= 100; the output holds those records, in order.
C6_PriceFilter ==
    Returned("process_rate_data") =>
        LET in   == call.args.records
            keep == {i \in DOMAIN in : in[i].stateid \in VALID_STATES /\ PriceAccepted(in[i].price)}
            nth(j) == CHOOSE i \in keep : Cardinality({m \in keep : m <= i}) = j
        IN /\ Len(call.ret) = Cardinality(keep)
           /\ \A j \in DOMAIN call.ret :
                 /\ call.ret[j].state = in[nth(j)].stateid
                 /\ call.ret[j].price = Float(Get(in[nth(j)].price))

(* Properties of find_column (SpecFindColumn) *)

\* the pattern is contained in the lower-cased header, '-' and '_' as spaces
HeaderMatches(pattern, header) ==
    StrContains(pattern, StrReplace(StrReplace(StrLower(header), "-", " "), "_", " "))

\* C5: column resolution priority. The result is the first header in source
\* order that matches the earliest pattern matched by any header; None when
\* no pattern matches any header.
C5_ResolutionPriority ==
    Returned("find_column") =>
        LET cols == call.args.columns
            pats == call.args.patterns
            matched == {j \in DOMAIN pats : \E i \in DOMAIN cols : HeaderMatches(pats[j], cols[i])}
        IN IF matched = {} THEN call.ret = Null
           ELSE LET j == CHOOSE a \in matched : \A b \in matched : a <= b
                    hs == {i \in DOMAIN cols : HeaderMatches(pats[j], cols[i])}
                    i == CHOOSE a \in hs : \A b \in hs : a <= b
                IN call.ret = Str(cols[i])

(* Properties of extract_utility_reliability (SpecExtract) *)

\* the cell of the sheet's state column in row r (the layouts name it by a
\* header that lower-cases to 'state')
InputState(df, r) ==
    df.rows[r][CHOOSE i \in DOMAIN df.columns : StrLower(df.columns[i]) = <<"s","t","a","t","e">>]

\* the input state text: stripped of surrounding whitespace, upper-cased
Normalized(df, r) == StrUpper(StrStrip(CellStr(InputState(df, r))))

\* C7: every returned row carries the trimmed, upper-cased input state, which
\* is one of the 51 VALID_STATES; every input row whose trimmed, upper-cased
\* state is not in VALID_STATES is skipped.
C7_StateValidated ==
    (Returned("extract_utility_reliability") /\ ~IsNone(call.ret)) =>
        /\ Cardinality(VALID_STATES) = 51
        /\ \A i \in DOMAIN call.ret.v :
              /\ call.ret.v[i].state = Normalized(call.args, call.ret.v[i].row)
              /\ call.ret.v[i].state \in VALID_STATES
        /\ \A r \in DOMAIN call.args.rows :
              Normalized(call.args, r) \notin VALID_STATES
                 => ~\E i \in DOMAIN call.ret.v : call.ret.v[i].row = r

\* C7 witness: a row ' tx ' is returned as TX and a row 'California' is skipped
C7_Witness ==
    /\ Returned("extract_utility_reliability") /\ ~IsNone(call.ret)
    /\ Len(call.args.rows) = 2 /\ Len(call.ret.v) = 1
    /\ \E r \in DOMAIN call.args.rows :
          /\ InputState(call.args, r) = Str(<<" ","t","x"," ">>)
          /\ call.ret.v[1].row = r /\ call.ret.v[1].state = TX
    /\ \E r \in DOMAIN call.args.rows :
          InputState(call.args, r) = Str(<<"C","a","l","i","f","o","r","n","i","a">>)

----------------------------------------------------------------------------
(* Properties of aggregate_to_state_year (SpecOutage) *)

\* the category an event counts under: weather, equipment, demand, or other
\* for everything else
CountedAs(category) == IF category \in {"weather", "equipment", "demand"} THEN category ELSE "other"

\* the (event, state) occurrences of the input that fall in the partition of
\* state code c and year y under category cat
Occurrences(events, c, y, cat) ==
    {<<e, s>> \in (DOMAIN events) \X (1..2) :
        /\ events[e].year = y /\ CountedAs(events[e].causeCategory) = cat
        /\ IF events[e].states = <<>> THEN s = 1 /\ c = US
           ELSE s \in DOMAIN events[e].states /\ StateCode(events[e].states[s]) = c}

PartitionCount(events, c, y, cat) == Cardinality(Occurrences(events, c, y, cat))

\* C9: in every state-year summary, primaryCause is the category among
\* weather, equipment, demand, other with the greatest event count in the
\* partition, and among categories that tie for the greatest count it is the
\* earliest in the order weather > equipment > demand > other.
C9_PrimaryCause ==
    (Returned("aggregate_to_state_year") /\ call.ret # Fail) =>
        \A i \in DOMAIN call.ret.v :
            LET s      == call.ret.v[i]
                n(cat) == PartitionCount(call.args, s.stateCode, s.year, cat)
            IN \E p \in DOMAIN CAUSE_ORDER :
                  /\ s.primaryCause = CAUSE_ORDER[p]
                  /\ \A q \in DOMAIN CAUSE_ORDER : n(CAUSE_ORDER[q]) <= n(CAUSE_ORDER[p])
                  /\ \A q \in DOMAIN CAUSE_ORDER : q < p => n(CAUSE_ORDER[q]) < n(CAUSE_ORDER[p])

\* C9 witness: a summary where equipment and demand tie for the greatest count
\* and equipment is the primary cause
C9_Witness ==
    /\ Returned("aggregate_to_state_year") /\ call.ret # Fail
    /\ \E i \in DOMAIN call.ret.v :
          /\ call.ret.v[i].equipmentEvents = call.ret.v[i].demandEvents
          /\ call.ret.v[i].equipmentEvents > call.ret.v[i].weatherEvents
          /\ call.ret.v[i].equipmentEvents >= call.ret.v[i].otherEvents
          /\ call.ret.v[i].primaryCause = "equipment"
          /\ call.ret.v[i].totalEvents = 3

----------------------------------------------------------------------------
(* Fallbacks when no usable data was found (SpecScripts) *)

\* the events parse_doe417_events finds in the extracted directory of the run
RealEvents == IF raw_data.cache = NoFile THEN <<>> ELSE parse_doe417_events(raw_data.cache)

\* C11: total absence of usable data never gives an output file with an empty
\* record array. build_chart_json and build_utility_json that emitted no point
\* or utility return without writing a file, so a file they wrote holds at
\* least one record; fetch_all_wholesale_data and fetch_all_outage_data that
\* obtained no real record write the synthetic sample data, whose record arrays
\* are not empty.
C11_NoEmptyOutput ==
    /\ pc \in {"chart_done", "utility_loop", "main_done"} /\ all_points = <<>>
          => output.saidi_vre = NoFile
    /\ output.saidi_vre # NoFile => output.saidi_vre.v.points # <<>>
    /\ pc = "main_done" /\ all_utilities = <<>> => output.utilities = NoFile
    /\ output.utilities # NoFile => output.utilities.v.utilities # <<>>
    /\ pc = "wholesale_done" /\ all_points = <<>>
          => output.wholesale_prices = Json(generate_sample_data)
    /\ output.wholesale_prices # NoFile => output.wholesale_prices.v.points # <<>>
    /\ pc = "outage_done" /\ RealEvents = <<>>
          => /\ output.outage_events = Json(SampleOutageData)
             /\ output.outage_events.v.stateYearSummary # <<>>
    /\ output.outage_events # NoFile => output.outage_events.v.events # <<>>

\* a wholesale run whose downloads were tried and gave no record: the sample
\* data was written
C11_Witness ==
    /\ pc = "wholesale_done" /\ raw_data.has_pandas /\ all_points = <<>> /\ requests # <<>>
    /\ output.wholesale_prices.v.metadata.dataSource = SAMPLE_SOURCE

----------------------------------------------------------------------------
(* The year loops (SpecScripts) *)

\* a column name in which one of the texts occurs, case ignored
HasColumn(columns, texts) ==
    \E i \in DOMAIN columns : \E t \in texts : StrContains(t, StrLower(columns[i]))

\* the texts of the cells of a row, "" for a cell that holds no text
RowTexts(row) == [i \in DOMAIN row |-> IF row[i].k = "str" THEN row[i].v ELSE <<>>]

\* one of the first three rows of the sheet names the id, state and saidi columns
NamesColumns(sheet) ==
    \E r \in DOMAIN sheet :
        /\ r <= 3
        /\ HasColumn(RowTexts(sheet[r]),
                     {<<"u", "t", "i", "l", "i", "t", "y", " ", "n", "u", "m", "b", "e", "r">>, <<"u", "t", "i", "l", "i", "t", "y", "_", "n", "u", "m", "b", "e", "r">>, <<"u", "t", "i", "l", "i", "t", "y", " ", "i", "d">>})
        /\ HasColumn(RowTexts(sheet[r]), {<<"s", "t", "a", "t", "e">>})
        /\ HasColumn(RowTexts(sheet[r]), {<<"s", "a", "i", "d", "i">>})

\* the Form 861 input of year y is missing or malformed: the download fails
\* (exception, status other than 200, not a zip), the zip holds no readable
\* reliability workbook, or the sheet lacks a required column
Form861InputBad(y) ==
    LET answer == raw_data.form861[y]
    IN IF answer.k # "response" THEN TRUE
       ELSE IF answer.status # 200 \/ answer.content.k # "json" THEN TRUE
       ELSE IF answer.content.v.reliability.k # "json" THEN TRUE
       ELSE ~NamesColumns(answer.content.v.reliability.v)

\* the sheet of year y has its columns and a utility row of California
Form861InputGood(y) ==
    /\ ~Form861InputBad(y)
    /\ \E r \in DOMAIN raw_data.form861[y].content.v.reliability.v :
          \E i \in DOMAIN raw_data.form861[y].content.v.reliability.v[r] :
              raw_data.form861[y].content.v.reliability.v[r][i] = Str(CA)

\* a run of __main__ with --utilities: build_chart_json is not called
UtilitiesOnly == call.fn = "__main__" /\ "--utilities" \in call.args

\* the generation or the reliability JSON of year y is absent or unreadable
ChartInputBad(y) == raw_data[y].generation.k # "json" \/ raw_data[y].reliability.k # "json"

\* C12: skip and continue per year. In the loops of fetch_form861.main and
\* build_chart_json a year whose input is missing or malformed leaves no output
\* record and no per-year file, and the other years of the range are processed
\* all the same: a year with good input has its file or its points whatever
\* happened to the years before it.
C12_SkipAndContinue ==
    /\ pc \in {"form861_loop", "form861_done"} =>
          \A y \in Years :
             /\ y < year /\ Form861InputBad(y)
                   => raw_data.reliability[y] = NoFile /\ raw_data.utilities[y] = NoFile
             /\ y < year /\ Form861InputGood(y)
                   => /\ raw_data.reliability[y].k = "json"
                      /\ \E i \in DOMAIN raw_data.reliability[y].v :
                            raw_data.reliability[y].v[i].year = y
             /\ pc = "form861_done" => year > LastYear
    /\ (pc \in {"chart_loop", "chart_done", "utility_loop", "main_done"} /\ ~UtilitiesOnly) =>
          \A y \in Years :
             /\ ChartInputBad(y) => \A i \in DOMAIN all_points : all_points[i].year # y
             /\ ChartInputBad(y) /\ output.saidi_vre # NoFile
                   => /\ \A i \in DOMAIN output.saidi_vre.v.points :
                            output.saidi_vre.v.points[i].year # y
                      /\ y \notin Range(output.saidi_vre.v.metadata.yearsAvailable)
             /\ y \in ChartYearsDone /\ ~ChartInputBad(y)
                   => \A c \in StateCodes :
                         InGeneration(y, c) /\ InReliability(y, c) => PointsOf(y, c) # {}

\* a Form 861 run that went past a year whose download failed and saved the
\* file of a later year
C12_Witness ==
    /\ pc = "form861_done"
    /\ \E y1, y2 \in Years :
          /\ y1 < y2
          /\ raw_data.form861[y1].k # "response"
          /\ raw_data.reliability[y1] = NoFile
          /\ raw_data.reliability[y2] # NoFile

----------------------------------------------------------------------------
(* The API key (SpecScripts) *)

ApiPcs == {"eia_main", "eia_failed", "eia_generation", "eia_crashed", "eia_reliability",
           "eia_done", "rates_main", "rates_failed", "rates_loop", "rates_done"}

\* EIA_API_KEY is unset or set to the empty string
KeyUnsetOrEmpty ==
    \/ raw_data.environ.k = "missing"
    \/ raw_data.environ.k = "str" /\ raw_data.environ.v = <<>>

\* a step taken with the key unset or empty is the raise of get_api_key in main
MissingKeyStep ==
    pc \in ApiPcs /\ KeyUnsetOrEmpty =>
        /\ get_api_key(raw_data.environ).k = "fail"
        /\ pc \in {"eia_main", "rates_main"}
        /\ pc' = IF pc = "eia_main" THEN "eia_failed" ELSE "rates_failed"
        /\ requests = <<>> /\ requests' = <<>>
        /\ raw_data' = raw_data

\* C13: when EIA_API_KEY is unset or empty, get_api_key raises, and the only
\* step main of fetch_eia_data or fetch_rates takes is the one that ends it
\* with that error: no request has been issued and no data file is written.
C13_MissingKeyFatal == [][MissingKeyStep]_vars

C13_Witness ==
    /\ pc = "rates_failed"
    /\ raw_data.environ.k = "str" /\ raw_data.environ.v = <<>>
    /\ requests = <<>>

----------------------------------------------------------------------------
(* The schema of saidi-vre.json under the flags (SpecScripts) *)

\* C14: the points of saidi-vre.json carry the same set of field names
\* whether create_sample_data or build_chart_json wrote the file.
C14_FlagsKeepSchema ==
    output.saidi_vre.k = "json" =>
        \A i \in DOMAIN output.saidi_vre.v.points :
            DOMAIN output.saidi_vre.v.points[i] = POINT_FIELDS

\* a file of build_chart_json: every point has the fields of POINT_FIELDS
C14_RealDataCase ==
    /\ pc = "main_done" /\ call.fn = "__main__" /\ call.args = {}
    /\ output.saidi_vre.k = "json"
    /\ \A i \in DOMAIN output.saidi_vre.v.points :
          DOMAIN output.saidi_vre.v.points[i] = POINT_FIELDS

----------------------------------------------------------------------------
(* Requests of one run (SpecScripts) *)

\* C15: no retry. Within one run no URL is passed to requests.get twice:
\* after a failed request the run goes on to the next URL, skips the year or
\* falls back to sample data.
C15_NoRetry ==
    \A i, j \in DOMAIN requests : i # j => requests[i] # requests[j]

\* both dataset URLs failed, each was requested once, and sample data was written
C15_Witness ==
    /\ pc = "outage_done"
    /\ requests = <<OPENEI_URL, BACKUP_URL>>
    /\ output.outage_events = Json(SampleOutageData)

----------------------------------------------------------------------------
(* Properties of the aggregations (SpecAggregate) *)

\* the same number, or no number on both sides (None and NaN)
SameValue(a, b) == (IsNum(a) /\ IsNum(b) /\ a.v = b.v) \/ (~IsNum(a) /\ ~IsNum(b))

\* the (event, state) occurrences of the input in the partition of c and y
AllOccurrences(events, c, y) ==
    UNION {Occurrences(events, c, y, cat) : cat \in Range(CAUSE_ORDER)}

\* C16: aggregation of a partition of one record returns the record's values:
\* in aggregate_to_state_level saidi and saifi are the utility's values
\* (rounded to 1 and 2 places) and utility_count is 1; in
\* aggregate_to_state_year totalCustomersAffected and maxEventCustomers are the
\* event's customersAffected and avgDurationHours its durationHours (rounded
\* to 1 place).
C16_SingletonIdempotent ==
    /\ Returned("aggregate_to_state_level") =>
          \A i \in DOMAIN call.ret :
              LET group == SelectSeq(call.args, LAMBDA row : row.state = call.ret[i].state)
              IN Len(group) = 1 =>
                    /\ SameValue(call.ret[i].saidi, Round1(group[1].saidi))
                    /\ SameValue(call.ret[i].saifi, Round2(group[1].saifi))
                    /\ call.ret[i].utility_count = 1
    /\ (Returned("aggregate_to_state_year") /\ call.ret.k = "json") =>
          \A i \in DOMAIN call.ret.v :
              LET s   == call.ret.v[i]
                  occ == AllOccurrences(call.args, s.stateCode, s.year)
              IN Cardinality(occ) = 1 =>
                    LET event == call.args[(CHOOSE o \in occ : TRUE)[1]]
                    IN /\ s.totalCustomersAffected = event.customersAffected
                       /\ s.maxEventCustomers = event.customersAffected
                       /\ s.avgDurationHours = 10 * RoundDiv(event.durationHours, 10)

\* the same statement for calls whose events have no negative customersAffected
SingletonIdempotentNonNegative ==
    (call.fn = "aggregate_to_state_year" =>
        \A e \in DOMAIN call.args : call.args[e].customersAffected >= 0)
    => C16_SingletonIdempotent


\* the states of the rows of df
StateKeys(df) == {df[i].state : i \in DOMAIN df}

\* the (state code, year) keys the events contribute to: codes of two characters
StateYearKeys(events) ==
    {k \in (UNION {{StateCode(events[e].states[s]) : s \in DOMAIN events[e].states} :
                      e \in DOMAIN events} \cup {US})
           \X {events[e].year : e \in DOMAIN events} :
        Len(k[1]) = 2 /\ AllOccurrences(events, k[1], k[2]) # {}}

\* the cells of a column of a group that hold a number
GroupValues(df, state, column) ==
    {i \in DOMAIN df : df[i].state = state /\ IsNum(df[i][column])}

\* one record per key with a contributing record, none for another key, and
\* the count of a record is the number of its contributing records
OneRecordPerKey ==
    /\ Returned("aggregate_to_state_level") =>
          /\ \A s \in StateKeys(call.args) :
                Cardinality({i \in DOMAIN call.ret : call.ret[i].state = s}) = 1
          /\ \A i \in DOMAIN call.ret :
                /\ call.ret[i].state \in StateKeys(call.args)
                /\ call.ret[i].utility_count >= 1
                /\ call.ret[i].utility_count =
                      Cardinality({r \in DOMAIN call.args : call.args[r].state = call.ret[i].state})
    /\ (Returned("aggregate_to_state_year") /\ call.ret.k = "json") =>
          /\ \A k \in StateYearKeys(call.args) :
                Cardinality({i \in DOMAIN call.ret.v :
                                call.ret.v[i].stateCode = k[1] /\ call.ret.v[i].year = k[2]}) = 1
          /\ \A i \in DOMAIN call.ret.v :
                /\ <<call.ret.v[i].stateCode, call.ret.v[i].year>> \in StateYearKeys(call.args)
                /\ call.ret.v[i].totalEvents >= 1
                /\ call.ret.v[i].totalEvents =
                      Cardinality(AllOccurrences(call.args, call.ret.v[i].stateCode,
                                                 call.ret.v[i].year))

\* C17 as stated: one record per key with a contributing record and none for
\* another key, every count is at least 1, and every mean of an emitted record
\* (saidi and saifi of a state) is taken over at least one value.
C17_AggregationByOmission ==
    /\ OneRecordPerKey
    /\ Returned("aggregate_to_state_level") =>
          \A i \in DOMAIN call.ret :
              /\ GroupValues(call.args, call.ret[i].state, "saidi") # {}
              /\ GroupValues(call.args, call.ret[i].state, "saifi") # {}

\* C17 amended: one record per key with a contributing record and none for
\* another key, every count is at least 1, the saidi mean is taken over at
\* least one value, and the saifi mean is NaN exactly when no row of the state
\* holds a saifi value.
C17_AggregationByOmissionAmended ==
    /\ OneRecordPerKey
    /\ Returned("aggregate_to_state_level") =>
          \A i \in DOMAIN call.ret :
              /\ GroupValues(call.args, call.ret[i].state, "saidi") # {}
              /\ IsNum(call.ret[i].saidi)
              /\ IsNum(call.ret[i].saifi)
                    <=> GroupValues(call.args, call.ret[i].state, "saifi") # {}

\* two utilities of one state give one record of count 2
C17_Witness ==
    /\ Returned("aggregate_to_state_level")
    /\ Len(call.args) = 2 /\ Len(call.ret) = 1 /\ call.ret[1].utility_count = 2

----------------------------------------------------------------------------
(* State codes of the outage summaries (SpecOutageMain) *)

\* the state-year summary written from parsed events
RealSummary ==
    IF pc = "outage_done" /\ RealEvents # <<>>
    THEN output.outage_events.v.stateYearSummary ELSE <<>>

\* C18: every record of the state-year summary that aggregate_to_state_year
\* builds from the events of parse_doe417_events has a stateCode of the fixed
\* set of valid state codes, and an event whose state does not resolve to
\* such a code is counted in no record.
C18_ValidStateCodes ==
    /\ \A i \in DOMAIN RealSummary : RealSummary[i].stateCode \in VALID_STATES
    /\ \A i \in DOMAIN RealSummary :
          RealSummary[i].totalEvents =
              Cardinality({e \in DOMAIN RealEvents :
                              /\ RealEvents[e].year = RealSummary[i].year
                              /\ RealEvents[e].states # <<>>
                              /\ StateCode(RealEvents[e].states[1]) = RealSummary[i].stateCode
                              /\ RealSummary[i].stateCode \in VALID_STATES})

\* a summary written from events that all name a valid state code
C18_ValidCase ==
    /\ RealSummary # <<>>
    /\ \A i \in DOMAIN RealSummary : RealSummary[i].stateCode \in VALID_STATES

----------------------------------------------------------------------------
(* The reducer of process_generation_data (SpecGeneration) *)

\* the generation values of the records of a fuel type that the loop uses
\* for state c, in order
UsedValues(gen_data, fuel_type, c) ==
    IF fuel_type \notin DOMAIN gen_data THEN <<>>
    ELSE LET used == SelectSeq(gen_data[fuel_type],
                               LAMBDA r : /\ r.location = c
                                          /\ ~IsNone(Get(r.generation))
                                          /\ Float(Get(r.generation)).k = "num")
         IN [i \in DOMAIN used |-> Float(Get(used[i].generation)).v]

\* C19: for every state of the result and every fuel type, the field (total,
\* wind, solar, gas, ...) is the sum of the generation values of all the
\* input records of that state and fuel type, however many there are.
C19_GenerationSummed ==
    Returned("process_generation_data") =>
        \A i \in DOMAIN call.ret : \A f \in DOMAIN FUEL_MAPPING :
            call.ret[i][FUEL_MAPPING[f][2]] =
                Num(SumSeq(UsedValues(call.args, FUEL_MAPPING[f][1], call.ret[i].location)))

\* the same statement for inputs with at most one used record per state and
\* fuel type
GenerationSummedSingle ==
    (Returned("process_generation_data")
     /\ \A i \in DOMAIN call.ret : \A f \in DOMAIN FUEL_MAPPING :
           Len(UsedValues(call.args, FUEL_MAPPING[f][1], call.ret[i].location)) <= 1)
    => C19_GenerationSummed

----------------------------------------------------------------------------
(* The precision of saidi (SpecBuild, SpecForm861) *)

\* the saidi of the retained reliability record of a point
RetainedSaidi(p) ==
    RelField(load_reliability_data(raw_data[p.year].reliability).v, p.stateCode, "saidi")

\* C20: every point of build_chart_json with a non-null saidi has saidi equal
\* to round(v, 1), v being the saidi of the retained reliability record of
\* its state and year, 0 < v < 10000.
C20_SaidiPrecision ==
    \A i \in DOMAIN all_points :
        ~IsNone(all_points[i].saidi) =>
            all_points[i].saidi = Round1(RetainedSaidi(all_points[i]))

\* build_chart_json passes the retained value through
SaidiPassedThrough ==
    \A i \in DOMAIN all_points :
        ~IsNone(all_points[i].saidi) => all_points[i].saidi = RetainedSaidi(all_points[i])

\* the saidi of every record of a reliability file of fetch_form861.py has
\* one decimal
Form861SaidiRounded ==
    pc \in {"form861_loop", "form861_done"} =>
        \A y \in Years :
            raw_data.reliability[y].k = "json" =>
                \A i \in DOMAIN raw_data.reliability[y].v :
                    LET saidi == raw_data.reliability[y].v[i].saidi
                    IN IsNum(saidi) /\ saidi = Round1(saidi)

----------------------------------------------------------------------------
(* The header offsets of parse_reliability_data (SpecParse) *)

\* the row that is the header after skipping k rows names a column whose
\* name contains the text
HeaderNames(sheet, k, text) ==
    /\ Len(sheet) > k
    /\ \E i \in DOMAIN sheet[k + 1] :
          sheet[k + 1][i].k = "str" /\ StrContains(text, StrLower(sheet[k + 1][i].v))

\* the offsets whose header row names a 'state' and a 'saidi' column
GoodOffsets(sheet) ==
    {k \in 0..2 : /\ HeaderNames(sheet, k, <<"s", "t", "a", "t", "e">>)
                  /\ HeaderNames(sheet, k, <<"s", "a", "i", "d", "i">>)}

\* the offsets among them whose header row holds a name or nothing in every cell
TextOffsets(sheet) ==
    {k \in GoodOffsets(sheet) : \A i \in DOMAIN sheet[k + 1] : sheet[k + 1][i].k # "num"}

\* the result is the table read at the smallest offset of S, None when S is empty
ReturnsSmallest(S) ==
    IF S = {} THEN IsNone(call.ret)
    ELSE /\ call.ret.k = "json"
         /\ call.ret.v = Frame(read_excel(call.args.v, CHOOSE k \in S : \A j \in S : k <= j))

\* C21: parse_reliability_data tries the offsets 0, 1, 2 in that order and
\* returns the table read at the smallest offset whose header row has a
\* column name containing 'state' and one containing 'saidi'; None when no
\* offset has both.
C21_HeaderOffset ==
    (Returned("parse_reliability_data") /\ call.args.k = "json")
        => ReturnsSmallest(GoodOffsets(call.args.v))

\* the same statement over the offsets whose header row holds no number
HeaderOffsetOfTextRows ==
    (Returned("parse_reliability_data") /\ call.args.k = "json")
        => ReturnsSmallest(TextOffsets(call.args.v))

\* a sheet under two leading rows is read at offset 2
HeaderOffsetTwoReached ==
    /\ Returned("parse_reliability_data") /\ call.args.k = "json"
    /\ GoodOffsets(call.args.v) = {2} /\ call.ret.k = "json" /\ Len(call.ret.v.rows) = 1

----------------------------------------------------------------------------
(* Numeric coercion in extract_utility_reliability (SpecExtract) *)

\* the cell of row r in the column that the sheet's layout gives the role, or
\* None when the layout has no such column
RoleCell(df, r, role) ==
    LET l == CHOOSE x \in LAYOUTS : [i \in DOMAIN x |-> x[i][1]] = df.columns
    IN IF \E i \in DOMAIN l : l[i][2] = role
       THEN df.rows[r][CHOOSE i \in DOMAIN l : l[i][2] = role]
       ELSE Null

\* the cell is there and is not a number: an empty cell, or text that float()
\* does not parse
FailsCoercion(cell) ==
    \/ cell.k = "nan"
    \/ cell.k = "str" /\ ParseFloat(cell.v).k = "fail"

\* the returned row that came from input row r, if any
RowsFrom(r) == {i \in DOMAIN call.ret.v : call.ret.v[i].row = r}

\* the row passes everything except the two optional fields
OtherwiseKept(df, r) ==
    /\ Normalized(df, r) \in VALID_STATES
    /\ ~FailsCoercion(RoleCell(df, r, "id"))
    /\ ~FailsCoercion(RoleCell(df, r, "saidi"))

\* C22: a row whose SAIDI or utility id fails numeric coercion is dropped; a
\* row whose SAIFI or customers fails coercion is retained with that field
\* null; the call returns (a table or None), no coercion failure raises.
C22_CoercionAsymmetry ==
    Returned("extract_utility_reliability") =>
        /\ call.ret.k \in {"json", "null"}
        /\ ~IsNone(call.ret) =>
              \A r \in DOMAIN call.args.rows :
                 /\ (FailsCoercion(RoleCell(call.args, r, "saidi"))
                       \/ FailsCoercion(RoleCell(call.args, r, "id"))) => RowsFrom(r) = {}
                 /\ (OtherwiseKept(call.args, r)
                       /\ FailsCoercion(RoleCell(call.args, r, "saifi")))
                       => \E i \in RowsFrom(r) : IsNa(call.ret.v[i].saifi)
                 /\ (OtherwiseKept(call.args, r)
                       /\ FailsCoercion(RoleCell(call.args, r, "customers")))
                       => \E i \in RowsFrom(r) : IsNa(call.ret.v[i].customers)

\* C22 witness: of two rows the one with an unparseable SAIDI is dropped and
\* the one with an unparseable customers cell is returned, customers null
C22_Witness ==
    /\ Returned("extract_utility_reliability") /\ ~IsNone(call.ret)
    /\ Len(call.args.rows) = 2 /\ Len(call.ret.v) = 1
    /\ \E r \in DOMAIN call.args.rows :
          /\ RoleCell(call.args, r, "saidi") = Str(<<"-">>) /\ RowsFrom(r) = {}
    /\ \E r \in DOMAIN call.args.rows :
          /\ RoleCell(call.args, r, "customers") = Str(<<"n","/","a">>)
          /\ call.ret.v[1].row = r /\ IsNa(call.ret.v[1].customers)

\* a retained row with an unparseable SAIFI cell
CoercionSaifiRetained ==
    /\ Returned("extract_utility_reliability") /\ ~IsNone(call.ret)
    /\ \E i \in DOMAIN call.ret.v :
          /\ RoleCell(call.args, call.ret.v[i].row, "saifi") = Str(<<"n","/","a">>)
          /\ IsNa(call.ret.v[i].saifi)

----------------------------------------------------------------------------
(* The customer reducers of aggregate_to_state_year (SpecOutage) *)

RECURSIVE CustomersSum(_, _)
\* the sum of customersAffected over a set of (event, state) occurrences
CustomersSum(events, occ) ==
    IF occ = {} THEN 0
    ELSE LET o == CHOOSE x \in occ : TRUE
         IN events[o[1]].customersAffected + CustomersSum(events, occ \ {o})

\* the greatest customersAffected over a non-empty set of occurrences
CustomersMax(events, occ) ==
    CHOOSE m \in {events[o[1]].customersAffected : o \in occ} :
        \A o \in occ : events[o[1]].customersAffected <= m

\* an event list as parse_doe417_events builds it: every event names the one
\* "Area Affected" string of its row, or no state
ParserShaped(events) == \A e \in DOMAIN events : Len(events[e].states) <= 1

\* C23: for every event list that parse_doe417_events can produce (customer
\* counts of zero and below zero included), every state-year summary has
\* totalCustomersAffected equal to the sum and maxEventCustomers equal to the
\* maximum of customersAffected over exactly the events that contribute to its
\* partition.
C23_CustomerReducers ==
    (Returned("aggregate_to_state_year") /\ call.ret.k = "json" /\ ParserShaped(call.args)) =>
        \A i \in DOMAIN call.ret.v :
            LET s   == call.ret.v[i]
                occ == AllOccurrences(call.args, s.stateCode, s.year)
            IN /\ occ # {}
               /\ s.totalCustomersAffected = CustomersSum(call.args, occ)
               /\ s.maxEventCustomers = CustomersMax(call.args, occ)

\* the sum over the contributing events, for every event list; the maximum
\* over them in every partition that holds a count of zero or more
CustomerReducersNonNegative ==
    (Returned("aggregate_to_state_year") /\ call.ret.k = "json") =>
        \A i \in DOMAIN call.ret.v :
            LET s   == call.ret.v[i]
                occ == AllOccurrences(call.args, s.stateCode, s.year)
            IN /\ occ # {}
               /\ s.totalCustomersAffected = CustomersSum(call.args, occ)
               /\ (\E o \in occ : call.args[o[1]].customersAffected >= 0)
                     => s.maxEventCustomers = CustomersMax(call.args, occ)

\* a partition of three events is reduced to their sum and their maximum
CustomerReducersReached ==
    /\ Returned("aggregate_to_state_year") /\ call.ret.k = "json"
    /\ \E i \in DOMAIN call.ret.v :
          /\ call.ret.v[i].totalEvents = 3
          /\ call.ret.v[i].totalCustomersAffected = 2000
          /\ call.ret.v[i].maxEventCustomers = 1000

----------------------------------------------------------------------------
(* The category counts of aggregate_to_state_year (SpecOutage) *)

\* C26: in every state-year summary totalEvents = weatherEvents +
\* equipmentEvents + demandEvents + otherEvents; each of the four counts the
\* occurrences of its category in the partition, events of category fuel or
\* cyber (or any other category) being counted in otherEvents; an event that
\* lists k states is counted once for each listed state, in the partition of
\* that state.
C26_CategoryCounts ==
    (Returned("aggregate_to_state_year") /\ call.ret.k = "json") =>
        \A i \in DOMAIN call.ret.v :
            LET s      == call.ret.v[i]
                n(cat) == PartitionCount(call.args, s.stateCode, s.year, cat)
            IN /\ s.totalEvents = s.weatherEvents + s.equipmentEvents + s.demandEvents + s.otherEvents
               /\ s.weatherEvents = n("weather") /\ s.equipmentEvents = n("equipment")
               /\ s.demandEvents = n("demand") /\ s.otherEvents = n("other")
               /\ s.totalEvents = Cardinality(AllOccurrences(call.args, s.stateCode, s.year))

\* C26 witness: a fuel event is the one event of a summary and is counted in
\* otherEvents, and an event that lists two states is the one event of two
\* summaries
C26_Witness ==
    /\ Returned("aggregate_to_state_year") /\ call.ret.k = "json"
    /\ \E e \in DOMAIN call.args, i \in DOMAIN call.ret.v :
          /\ call.args[e].causeCategory = "fuel"
          /\ AllOccurrences(call.args, call.ret.v[i].stateCode, call.ret.v[i].year) = {<<e, 1>>}
          /\ call.ret.v[i].otherEvents = 1 /\ call.ret.v[i].totalEvents = 1
    /\ \E e \in DOMAIN call.args, i, j \in DOMAIN call.ret.v :
          /\ Len(call.args[e].states) = 2 /\ i # j
          /\ AllOccurrences(call.args, call.ret.v[i].stateCode, call.ret.v[i].year) = {<<e, 1>>}
          /\ AllOccurrences(call.args, call.ret.v[j].stateCode, call.ret.v[j].year) = {<<e, 2>>}
          /\ call.ret.v[i].totalEvents = 1 /\ call.ret.v[j].totalEvents = 1

----------------------------------------------------------------------------
(* The partition keys of aggregate_to_state_year (SpecOutage) *)

\* the (stateCode, year) pairs of the summaries of a result
ReportedKeys(results) == {<<results[i].stateCode, results[i].year>> : i \in DOMAIN results}

\* C27: every key "<stateCode>-<year>" decodes to the pair that built it: for
\* every event list the call completes without error and the summaries report
\* exactly the state codes and years of the partitions, for every state code
\* of two characters, a code that holds the separator '-' included.
C27_KeyRoundTrip ==
    Returned("aggregate_to_state_year") =>
        /\ call.ret.k = "json"
        /\ ReportedKeys(call.ret.v) = StateYearKeys(call.args)
        /\ Len(call.ret.v) = Cardinality(StateYearKeys(call.args))

\* the same round trip for the event lists none of whose state codes holds '-'
KeyRoundTripNoSeparator ==
    (Returned("aggregate_to_state_year")
        /\ \A k \in StateYearKeys(call.args) : \A c \in DOMAIN k[1] : k[1][c] # "-") =>
        /\ call.ret.k = "json"
        /\ ReportedKeys(call.ret.v) = StateYearKeys(call.args)
        /\ Len(call.ret.v) = Cardinality(StateYearKeys(call.args))

\* a call with three partitions returns their three summaries
KeyRoundTripReached ==
    /\ Returned("aggregate_to_state_year") /\ call.ret.k = "json"
    /\ Cardinality(ReportedKeys(call.ret.v)) = 3

----------------------------------------------------------------------------
(* The order of the points of build_chart_json (SpecBuild) *)

\* the places <<fuel, record>> of the generation data of a year at which
\* process_generation_data takes a value for the state: the fuels in
\* FUEL_MAPPING order, the records in file order, a record taken when its
\* location is a state code and its generation converts to float
TakenAt(gen_data, state) ==
    {p \in UNION {{<<f, r>> : r \in DOMAIN gen_data[FUEL_MAPPING[f][1]]} :
                    f \in {g \in DOMAIN FUEL_MAPPING : FUEL_MAPPING[g][1] \in DOMAIN gen_data}} :
        /\ LET record == gen_data[FUEL_MAPPING[p[1]][1]][p[2]]
           IN /\ record.location = state /\ state \in StateCodes
              /\ ~IsNone(Get(record.generation))
              /\ Float(Get(record.generation)).k # "fail"}

PlaceBefore(p, q) == p[1] < q[1] \/ (p[1] = q[1] /\ p[2] < q[2])

\* the state appears, and appears first before the other state does
FirstAppearsBefore(gen_data, a, b) ==
    /\ TakenAt(gen_data, a) # {} /\ TakenAt(gen_data, b) # {}
    /\ \E p \in TakenAt(gen_data, a) : \A q \in TakenAt(gen_data, b) : PlaceBefore(p, q)

----------------------------------------------------------------------------
(* The reliability fallback of fetch_eia_data.py (SpecScripts) *)

\* the file holds more than 10 records and the population variance of their
\* saidi exceeds 3000
RealDataDetected(file) ==
    /\ file.k = "json" /\ Len(file.v) > 10
    /\ \A i \in DOMAIN file.v : IsNum(file.v[i].saidi)
    /\ VarianceAbove([i \in DOMAIN file.v |-> file.v[i].saidi], 3000)

\* the reliability files there are
ExistingFiles(dir) == {dir[y] : y \in {x \in DOMAIN dir : dir[x].k # "nofile"}}

\* a step of fetch_reliability_data_via_api: it leaves every reliability file
\* as it is, having sampled a file in which real data is detected, or it
\* writes a file of estimates for every year, detection having failed
ReliabilityFallbackStep ==
    pc = "eia_reliability" =>
        \/ /\ raw_data'.reliability = raw_data.reliability
           /\ \E f \in ExistingFiles(raw_data.reliability) : RealDataDetected(f)
        \/ /\ raw_data'.reliability = [y \in Years |-> Estimated]
           /\ \/ ExistingFiles(raw_data.reliability) = {}
              \/ \E f \in ExistingFiles(raw_data.reliability) : ~RealDataDetected(f)

ReliabilityEstimatesWritten ==
    /\ pc = "eia_done"
    /\ \A y \in Years : raw_data.reliability[y] = Estimated

----------------------------------------------------------------------------
(* Real and synthetic records (SpecScripts) *)

\* the hub records parsed from the file of year y that the run found or
\* downloaded (the cache holds it once the run is over)
YearYield(y) ==
    IF raw_data.wholesale[y].cache.k = "nofile" THEN <<>>
    ELSE parse_wholesale_excel(raw_data.wholesale[y].cache, y, raw_data.has_pandas)

\* C28: the points returned by fetch_all_wholesale_data are all parsed from
\* real files or all synthetic: the sample data (dataSource "Sample data for
\* development") is returned if and only if no year of the range yielded at
\* least one parsed hub record; in the same way the events of
\* fetch_all_outage_data are the sample events if and only if no event was
\* parsed, and all parsed events otherwise.
C28_ProvenanceNotMixed ==
    /\ pc = "wholesale_done" =>
          LET d == output.wholesale_prices.v
          IN IF \A y \in Years : YearYield(y) = <<>>
             THEN /\ d.metadata.dataSource = "Sample data for development"
                  /\ d.points = SampleHubPoints
             ELSE /\ d.metadata.dataSource # "Sample data for development"
                  /\ \A i \in DOMAIN d.points :
                        /\ \E y \in Years : d.points[i] \in Range(YearYield(y))
                        /\ d.points[i] \notin Range(SampleHubPoints)
    /\ pc = "outage_done" =>
          LET d == output.outage_events.v
          IN IF RealEvents = <<>>
             THEN /\ d.metadata.dataSource = "Sample data for development"
                  /\ d.events = SampleOutageData.events
             ELSE /\ d.metadata.dataSource # "Sample data for development"
                  /\ \A i \in DOMAIN d.events :
                        /\ d.events[i] \in Range(RealEvents)
                        /\ d.events[i] \notin Range(SampleOutageData.events)

\* C28 witness: one year yielded hub records and another none, and the file
\* written holds the parsed records alone
C28_Witness ==
    /\ pc = "wholesale_done"
    /\ \E y1, y2 \in Years : YearYield(y1) # <<>> /\ YearYield(y2) = <<>>
                              /\ output.wholesale_prices.v.points = YearYield(y1)

\* an outage run that parsed events wrote them, and one that parsed none
\* after a download wrote the sample events
OutageRealWritten ==
    /\ pc = "outage_done" /\ RealEvents # <<>>
    /\ output.outage_events.v.events = RealEvents

OutageSampleWritten ==
    /\ pc = "outage_done" /\ raw_data.cache # NoFile /\ RealEvents = <<>>
    /\ output.outage_events.v.metadata.dataSource = SAMPLE_SOURCE

----------------------------------------------------------------------------
(* Separators in find_column (SpecFindColumn) *)

\* the header in lower case with every '-' and '_' turned into a space
NormalizedHeader(header) ==
    LET lower == StrLower(header)
    IN [i \in DOMAIN lower |-> IF lower[i] \in {"-", "_"} THEN " " ELSE lower[i]]

HasSeparator(pattern) == \E i \in DOMAIN pattern : pattern[i] \in {"-", "_"}

\* the pattern, taken as it is, occurs in the normalized header
PatternOccurs(pattern, header) == StrContains(pattern, NormalizedHeader(header))

\* C29: '-' and '_' are replaced by spaces in the lower-cased header only, not
\* in the pattern: a column is found if and only if one of the patterns, as
\* it is written, is a substring of a normalized header. A pattern that holds
\* '_' or '-' ('utility_number', 'saidi_wo') matches no header, and the header
\* 'Utility_Number' is found only through the pattern 'utility number'.
C29_OneSidedSeparators ==
    Returned("find_column") =>
        LET cols == call.args.columns
            pats == call.args.patterns
        IN /\ call.ret # Null <=>
                 \E j \in DOMAIN pats : \E i \in DOMAIN cols : PatternOccurs(pats[j], cols[i])
           /\ \A j \in DOMAIN pats : HasSeparator(pats[j]) =>
                 \A i \in DOMAIN cols : ~PatternOccurs(pats[j], cols[i])
           /\ (\A j \in DOMAIN pats : HasSeparator(pats[j])) => call.ret = Null
           /\ call.ret = Str(H_Utility_Number) =>
                 \E j \in DOMAIN pats : pats[j] = P_utility_number
           /\ (cols = <<H_Utility_Number>> /\ \E j \in DOMAIN pats : pats[j] = P_utility_number)
                 => call.ret = Str(H_Utility_Number)

\* C29 witness: 'utility_number' is tried first and matches nothing, 'utility
\* number' finds the header 'Utility_Number'
C29_Witness ==
    /\ Returned("find_column")
    /\ call.args.patterns = <<P_utility_number_us, P_utility_number>>
    /\ \E i \in DOMAIN call.args.columns : call.args.columns[i] = H_Utility_Number
    /\ call.ret = Str(H_Utility_Number)

\* the header 'SAIDI-WO-MED' under the pattern 'saidi_wo' alone: not found
SeparatorPatternNotFound ==
    /\ Returned("find_column")
    /\ call.args.patterns = <<P_saidi_wo>>
    /\ \E i \in DOMAIN call.args.columns : call.args.columns[i] = H_saidi_wo
    /\ call.ret = Null

----------------------------------------------------------------------------
(* The RTOs of a utility record (SpecBuild) *)

\* the flags and display names in the fixed order
RTO_DISPLAY ==
    <<[flag |-> "rto_caiso", name |-> "CAISO"], [flag |-> "rto_ercot", name |-> "ERCOT"],
      [flag |-> "rto_pjm", name |-> "PJM"], [flag |-> "rto_nyiso", name |-> "NYISO"],
      [flag |-> "rto_spp", name |-> "SPP"], [flag |-> "rto_miso", name |-> "MISO"],
      [flag |-> "rto_isone", name |-> "ISO-NE"]>>

\* the display names of the flags of u that are true, in the fixed order
TrueFlagNames(u) ==
    LET hit == SelectSeq(RTO_DISPLAY, LAMBDA e : e.flag \in DOMAIN u.rto /\ u.rto[e.flag])
    IN [i \in DOMAIN hit |-> hit[i].name]

\* the utility of the file of the record's year that the record was built from
SourceUtility(rec) ==
    CHOOSE u \in Range(raw_data[rec.year].utilities.v) : Get(u.utility_id) = rec.utilityId

\* C30: in every utility record of utilities.json, rtos lists the display
\* names of exactly the RTO flags that are true, in the fixed order CAISO,
\* ERCOT, PJM, NYISO, SPP, MISO, ISO-NE; primaryRto is the first element of
\* rtos when rtos is not empty, and it is null if and only if rtos is empty.
C30_PrimaryRto ==
    output.utilities.k = "json" =>
        \A i \in DOMAIN output.utilities.v.utilities :
            LET rec == output.utilities.v.utilities[i]
            IN /\ rec.rtos = TrueFlagNames(SourceUtility(rec))
               /\ rec.rtos # <<>> => rec.primaryRto = Str(rec.rtos[1])
               /\ rec.primaryRto = Null <=> rec.rtos = <<>>

\* C30 witness: a file written with a record of three RTOs, PJM the primary
\* one, and a record without an RTO
C30_Witness ==
    /\ output.utilities.k = "json"
    /\ \E i, j \in DOMAIN output.utilities.v.utilities :
          /\ output.utilities.v.utilities[i].rtos = <<"PJM", "NYISO", "ISO-NE">>
          /\ output.utilities.v.utilities[i].primaryRto = Str("PJM")
          /\ output.utilities.v.utilities[j].rtos = <<>>
          /\ output.utilities.v.utilities[j].primaryRto = Null

====
